---------------------------- MODULE Spec2Model ----------------------------
(***************************************************************************)
(* CppProperties: a tree of PropertyContainers with cascading properties,  *)
(* dirty tracking, batched emit() and computed (proxy) properties.         *)
(*                                                                         *)
(* The containers' fields are the variables; every public operation of     *)
(* PropertyContainerBase is a pure operator on the record of all fields    *)
(* (Cur) and an action that installs the operator's result.                *)
(***************************************************************************)
EXTENDS Integers, Sequences, FiniteSets, TLC

\* ------------------------------------------------------------------ universe

\* "no container": an absent m_toContainer entry, a null m_parent
NoC == "none"

\* plain containers (root R, child A, grandchild A1, sibling B) and two
\* ConvertingProxyProperties, which are containers too: P, the proxy of the
\* tests with two inputs, and Q, a proxy with the one input StringResultPD
PlainConts == {"R", "A", "A1", "B"}
Proxies == {"P", "Q"}
Formatters == {"P"}
Conts == PlainConts \cup Proxies

\* the descriptors of the tests: IntPD(0), StringPD("Empty"), StringResultPD("")
Descs == {"IntPD", "StringPD", "StringResultPD"}

\* plain values; 0 stands for the value-initialised T{} (0, ""), 1 for "Empty"
Values == {0, 1, 2}
NumValues == Cardinality(Values)

\* T{}: the value of a freshly constructed Property<T> (T m_value{})
ValueInit == 0

\* PropertyDescriptor::getDefaultValue
getDefaultValue(d) ==
    CASE d = "IntPD" -> 0
      [] d = "StringPD" -> 1
      [] d = "StringResultPD" -> 0

\* the function of the computed property: an injective pairing of its inputs,
\* like  s + ": " + std::to_string(i)  in the tests
m_func(i, s) == s * NumValues + i + 1

\* the upstream descriptors of the proxy (m_pds), in order
m_pds == <<"IntPD", "StringPD">>
\* the descriptor the proxy is installed under
ProxyKey == "StringResultPD"

AllValues == Values \cup {m_func(i, s) : i \in Values, s \in Values}

\* the upstream descriptors, the function and the descriptor it is installed
\* under, per proxy; Q maps the string of P back to an int, which closes a
\* cycle when Q is installed under P's input IntPD
m_pdsOf(p) == IF p \in Formatters THEN m_pds ELSE <<"StringResultPD">>
keyOf(p) == IF p \in Formatters THEN ProxyKey ELSE "IntPD"
m_funcOf(p, values) ==
    IF p \in Formatters THEN m_func(values[m_pds[1]], values[m_pds[2]])
    ELSE (values["StringResultPD"] + 1) % NumValues

\* ------------------------------------------------------------------ bounds

\* connect() calls per Signal (m_index never exceeds it)
MaxConnects == 1
\* entries of one container's m_removedProperties between two emits
MaxRemoved == 1
\* operations called in one run
MaxOps == 3
\* connect() calls with the identical bound method
MaxRepeat == 3

\* Signal_PMF::connectPMF's key: the hash of the type_index of the method
\* pointer's type, a size_t far from the small indexes Signal::connect hands
\* out; every bound method of the model has the one type  void (C::*)()
hashVal == MaxConnects + 1

SlotIds == (0 .. MaxConnects) \cup {hashVal}

\* what a slot of m_slots holds. kind: "closure" (a functor) or "pmf" (a
\* bound method); op: the body, a counting observer "f" or "g", or the call
\* c.op(d, v) ("set", "change", "touch", "remove") made from inside the
\* observer
Callable(kind, op, c, d, v) ==
    [kind |-> kind, op |-> op, c |-> c, d |-> d, v |-> v]
NoFunc == Callable("none", "none", NoC, NoC, 0)
\* the counting lambdas of the tests (observerFunc)
F == Callable("closure", "f", NoC, NoC, 0)
G == Callable("closure", "g", NoC, NoC, 0)
\* two bound methods of one class with the same signature
dirtyIntFunc == Callable("pmf", "f", NoC, NoC, 0)
otherFunc == Callable("pmf", "g", NoC, NoC, 0)
\* the closure of the ConvertingProxyProperty constructor
ProxyLambda == Callable("closure", "proxy", NoC, NoC, 0)
\* the observers that only count their invocations
Counting == {F, G, dirtyIntFunc, otherFunc}

\* ------------------------------------------------------------------ state

VARIABLES
    m_parent,            \* [Conts -> Conts \cup {NoC}]
    m_children,          \* [Conts -> Seq(Conts)]
    hasData,             \* [Conts -> SUBSET Descs]: the keys of m_propertyData
    owned,               \* [Conts -> [Descs -> BOOLEAN]]: m_property != nullptr
    m_value,             \* [Conts -> [Descs -> Values]]: the Property's m_value
    m_isProxyProperty,   \* [Conts -> [Descs -> BOOLEAN]]
    m_propertyChanged,   \* [Conts -> [Descs -> BOOLEAN]]
    m_connectedSignals,  \* [Conts -> [Descs -> Seq(Conts)]]: Signal of container k for the same descriptor
    m_toContainer,       \* [Conts -> [Descs -> Conts \cup {NoC}]]
    m_changedProperties, \* [Conts -> Seq(Descs)]
    m_removedProperties, \* [Conts -> Seq([pd: Descs, signals: Seq(Conts)])]
    m_slots,             \* [Conts -> [Descs -> SUBSET SlotIds]]
    m_index,             \* [Conts -> [Descs -> Nat]]
    slotFunc,            \* [Conts -> [Descs -> [SlotIds -> Callable]]]: the std::function stored under each key of m_slots
    m_values,            \* [Proxies -> [Descs -> Values]]: the proxy's cached inputs
    proxyValue,          \* [Proxies -> AllValues]: the proxy's own Property<T>::m_value
    alive,               \* [Conts -> BOOLEAN]: the object has not been destroyed
    m_copyTypeErased,    \* [Conts -> [Descs -> BOOLEAN]]: PropertyData::init has set the Record's copy function
    propertySlots,       \* [Proxies -> SUBSET Conts]: the hosts whose Record PropertyData::init connected to the proxy's Property (its setDirty slot)
    ops,                 \* the number of operations called so far
    redundantWrite,      \* ghost: the last operation was a setProperty or changeProperty of the value its Record already stored
    fault,               \* "none", or the abnormal end the last operation ran into
    fired,               \* ghost: invocations of each slot during the last emit()
    received,            \* ghost: the value each slot was last called with during the last emit(), -1 if it was not called
    processed,           \* ghost, [Conts -> [Descs -> Nat]]: how often the last emit() took the Record from a snapshot of the dirty list
    snapshots,           \* ghost, [Conts -> Nat]: how often the last emit() copied the container's dirty list
    calls,               \* ghost: the slot calls  slot(inst, value)  of the last emit() in the order they were made: the Signal (k, d) and key id of the slot, and the container c and the phase of the pass that made the call; c is the  this  the pass hands over as inst
    emitting,            \* ghost: the Record whose m_connectedSignals, or the container whose m_removedProperties, a running emit() iterates
    valueChangedSince,   \* ghost: the Record's stored value changed since the last emit() that covered it
    mutatedSince,        \* ghost: a set/change/touch/remove call since the last emit() that covered the container
    unownedAtInstall     \* ghost, [Proxies -> BOOLEAN]: the host owned none of the proxy's inputs when the proxy was installed

vars == <<m_parent, m_children, hasData, owned, m_value, m_isProxyProperty,
          m_propertyChanged, m_connectedSignals, m_toContainer,
          m_changedProperties, m_removedProperties, m_slots, m_index,
          slotFunc, m_values, proxyValue, alive, m_copyTypeErased,
          propertySlots, ops, redundantWrite, fault,
          fired, received, processed, snapshots, calls, emitting,
          valueChangedSince, mutatedSince, unownedAtInstall>>

\* all fields as one record: the operators below map such a record to the next
Cur ==
    [m_parent |-> m_parent, m_children |-> m_children, hasData |-> hasData,
     owned |-> owned, m_value |-> m_value,
     m_isProxyProperty |-> m_isProxyProperty,
     m_propertyChanged |-> m_propertyChanged,
     m_connectedSignals |-> m_connectedSignals,
     m_toContainer |-> m_toContainer,
     m_changedProperties |-> m_changedProperties,
     m_removedProperties |-> m_removedProperties,
     m_slots |-> m_slots, m_index |-> m_index, slotFunc |-> slotFunc,
     m_values |-> m_values,
     proxyValue |-> proxyValue, alive |-> alive,
     m_copyTypeErased |-> m_copyTypeErased, propertySlots |-> propertySlots,
     fault |-> fault,
     fired |-> fired, received |-> received, processed |-> processed,
     snapshots |-> snapshots, calls |-> calls, emitting |-> emitting,
     valueChangedSince |-> valueChangedSince, mutatedSince |-> mutatedSince,
     unownedAtInstall |-> unownedAtInstall]

Install(s, redundant) ==
    /\ ops < MaxOps
    /\ ops' = ops + 1
    /\ redundantWrite' = redundant
    /\ m_parent' = s.m_parent
    /\ m_children' = s.m_children
    /\ hasData' = s.hasData
    /\ owned' = s.owned
    /\ m_value' = s.m_value
    /\ m_isProxyProperty' = s.m_isProxyProperty
    /\ m_propertyChanged' = s.m_propertyChanged
    /\ m_connectedSignals' = s.m_connectedSignals
    /\ m_toContainer' = s.m_toContainer
    /\ m_changedProperties' = s.m_changedProperties
    /\ m_removedProperties' = s.m_removedProperties
    /\ m_slots' = s.m_slots
    /\ m_index' = s.m_index
    /\ slotFunc' = s.slotFunc
    /\ m_values' = s.m_values
    /\ proxyValue' = s.proxyValue
    /\ alive' = s.alive
    /\ m_copyTypeErased' = s.m_copyTypeErased
    /\ propertySlots' = s.propertySlots
    /\ fault' = s.fault
    /\ fired' = s.fired
    /\ received' = s.received
    /\ processed' = s.processed
    /\ snapshots' = s.snapshots
    /\ calls' = s.calls
    /\ emitting' = s.emitting
    /\ valueChangedSince' = s.valueChangedSince
    /\ mutatedSince' = s.mutatedSince
    /\ unownedAtInstall' = s.unownedAtInstall

NoFired == [k \in Conts |-> [d \in Descs |-> [i \in SlotIds |-> 0]]]
NoReceived == [k \in Conts |-> [d \in Descs |-> [i \in SlotIds |-> -1]]]

\* no emit() is running
Idle == [c |-> NoC, d |-> NoC, phase |-> "idle"]

\* the ghosts of the last emit() are forgotten with the next call
forget(s) ==
    [s EXCEPT !.fired = NoFired, !.received = NoReceived,
              !.processed = [c \in Conts |-> [d \in Descs |-> 0]],
              !.snapshots = [c \in Conts |-> 0], !.calls = <<>>]


\* ------------------------------------------------------------------ helpers

\* the elements of a sequence
Range(q) == {q[i] : i \in DOMAIN q}

\* q without the elements equal to x (std::find_if + erase of the one match)
Without(q, x) == SelectSeq(q, LAMBDA e : e # x)

\* PropertyContainerBase::ownsPropertyDataInternal
ownsPropertyDataInternal(s, c, d) == d \in s.hasData[c] /\ s.owned[c][d]

\* PropertyContainerBase::getOwningPropertyContainer
getOwningPropertyContainer(s, c, d) ==
    IF ownsPropertyDataInternal(s, c, d) THEN c ELSE s.m_toContainer[c][d]

\* the containers setParentContainerForProperty(pd, .) called on c writes to:
\* c itself, then every child that does not own pd, recursively
RECURSIVE Uncovered(_, _, _)
Uncovered(s, c, d) ==
    {c} \cup UNION { Uncovered(s, k, d) :
                       k \in {x \in Range(s.m_children[c]) :
                                ~ownsPropertyDataInternal(s, x, d)} }

\* a setParentContainerForProperty that writes the entry of c only and does
\* not descend to the children
setParentContainerForPropertyNoDescent(s, c, d, container) ==
    [s EXCEPT !.m_toContainer[c][d] = container]

\* PropertyContainerBase::setParentContainerForProperty (NoC erases the entry)
setParentContainerForProperty(s, c, d, container) ==
    LET region == Uncovered(s, c, d)
    IN [s EXCEPT !.m_toContainer =
            [x \in Conts |-> IF x \in region
                             THEN [s.m_toContainer[x] EXCEPT ![d] = container]
                             ELSE s.m_toContainer[x]]]

\* a getAllSignals that also descends into the children that own pd
RECURSIVE getAllSignalsThroughOwners(_, _, _)
getAllSignalsThroughOwners(s, c, d) ==
    LET kids == s.m_children[c]
        RECURSIVE rest(_)
        rest(i) ==
            IF i > Len(kids) THEN <<>>
            ELSE getAllSignalsThroughOwners(s, kids[i], d) \o rest(i + 1)
    IN (IF d \in s.hasData[c] THEN <<c>> ELSE <<>>) \o rest(1)

\* PropertyContainerBase::getAllSignals: the own Signal if m_propertyData has
\* the key, then the Signals of every child that does not own pd, in order
RECURSIVE getAllSignals(_, _, _)
getAllSignals(s, c, d) ==
    LET kids == s.m_children[c]
        RECURSIVE rest(_)
        rest(i) ==
            IF i > Len(kids) THEN <<>>
            ELSE (IF ownsPropertyDataInternal(s, kids[i], d) THEN <<>>
                  ELSE getAllSignals(s, kids[i], d)) \o rest(i + 1)
    IN (IF d \in s.hasData[c] THEN <<c>> ELSE <<>>) \o rest(1)

\* m_propertyData[&pd]: operator[] default-constructs a missing entry
touchData(s, c, d) == [s EXCEPT !.hasData[c] = @ \cup {d}]

\* PropertyContainerBase::updateAllSignals
updateAllSignals(s, c, d) ==
    LET s1 == touchData(s, c, d)
    IN [s1 EXCEPT !.m_connectedSignals[c][d] = getAllSignals(s1, c, d)]

\* PropertyContainerBase::addSignal
addSignal(s, c, d, signal) ==
    LET s1 == touchData(s, c, d)
    IN IF signal \in Range(s1.m_connectedSignals[c][d]) THEN s1
       ELSE [s1 EXCEPT !.m_connectedSignals[c][d] = Append(@, signal)]

\* PropertyContainerBase::addSignals
addSignals(s, c, d, connectedSignals) ==
    LET s1 == touchData(s, c, d)
    IN [s1 EXCEPT !.m_connectedSignals[c][d] = @ \o connectedSignals]

\* a setDirty that appends the Record whatever its m_propertyChanged flag says
setDirtyUnflagged(s, c, d) ==
    [s EXCEPT !.m_propertyChanged[c][d] = TRUE,
              !.m_changedProperties[c] = Append(@, d)]

\* PropertyContainerBase::setDirty
setDirty(s, c, d) ==
    IF s.m_propertyChanged[c][d] THEN s
    ELSE [s EXCEPT !.m_propertyChanged[c][d] = TRUE,
                   !.m_changedProperties[c] = Append(@, d)]

\* PropertyContainerBase::touchPropertyInternal
touchPropertyInternal(s, c, d) == setDirty(touchData(s, c, d), c, d)

\* PropertyContainerBase::getOrConstructPropertyInternal with PropertyData::init:
\* a missing Property is constructed value-initialised
getOrConstructPropertyInternal(s, c, d) ==
    LET s1 == touchData(s, c, d)
    IN IF s1.owned[c][d] THEN s1
       ELSE [s1 EXCEPT !.owned[c][d] = TRUE, !.m_value[c][d] = ValueInit,
                       !.m_copyTypeErased[c][d] = TRUE]

\* the proxy stored in the Record of c for d (its m_property), if it is one
proxyOf(s, c, d) ==
    IF s.m_isProxyProperty[c][d] /\ s.owned[c][d]
       /\ \E p \in Proxies : p \in Range(s.m_children[c]) /\ d = keyOf(p)
    THEN CHOOSE p \in Proxies : p \in Range(s.m_children[c]) /\ d = keyOf(p)
    ELSE NoC

\* Property<T>::get of the Record c owns for d (the proxy's value for a proxy)
storedValue(s, c, d) ==
    IF proxyOf(s, c, d) # NoC THEN s.proxyValue[proxyOf(s, c, d)]
    ELSE s.m_value[c][d]

\* a Property<T>::set without the comparison: it stores and notifies always
setWithoutCompare(s, c, d, value) ==
    setDirty([s EXCEPT !.m_value[c][d] = value,
                       !.valueChangedSince[c][d] = TRUE], c, d)

\* Property<T>::set on the plain Property of c for d, with the slot
\* PropertyData::init connected to it (parentPtr->setDirty)
set(s, c, d, value) ==
    IF value # s.m_value[c][d]
    THEN setDirty([s EXCEPT !.m_value[c][d] = value,
                            !.valueChangedSince[c][d] = TRUE], c, d)
    ELSE s

\* PropertyContainerBase::getPropertyInternal: the Property pointer, null
\* without a Property
getPropertyInternal(s, c, d) ==
    IF ownsPropertyDataInternal(s, c, d)
    THEN [null |-> FALSE, get |-> storedValue(s, c, d)]
    ELSE [null |-> TRUE, get |-> ValueInit]

\* PropertyContainerBase::getProperty
getProperty(s, c, d) ==
    IF s.m_toContainer[c][d] = NoC THEN getDefaultValue(d)
    ELSE LET propertyData == getPropertyInternal(s, s.m_toContainer[c][d], d)
         IN IF ~propertyData.null THEN propertyData.get
            ELSE getDefaultValue(d)

\* PropertyContainerBase::hasProperty
hasProperty(s, c, d) == s.m_toContainer[c][d] # NoC


\* ------------------------------------------------------------------ operations

\* an abnormal end: assert(false), or a call through a null Property pointer
raise(s, what) == [s EXCEPT !.fault = what]

\* a changePropertyInternal that stores the value without looking at
\* m_isProxyProperty
changePropertyInternalUnchecked(s, c, d, value) ==
    set(getOrConstructPropertyInternal(s, c, d), c, d, value)

\* PropertyContainerBase::changePropertyInternal, the branch storing a value
changePropertyInternal(s, c, d, value) ==
    LET s1 == getOrConstructPropertyInternal(s, c, d)
    IN IF ~s1.m_isProxyProperty[c][d] THEN set(s1, c, d, value)
       ELSE raise(s1, "assert")

\* the ghost of a mutating call: every container has seen a mutation
noteMutation(s) == forget([s EXCEPT !.mutatedSince = [c \in Conts |-> TRUE]])

\* PropertyContainerBase::setProperty with a plain value
setProperty(s, c, d, value) ==
    LET s1 == setParentContainerForProperty(s, c, d, c)
        s2 == getOrConstructPropertyInternal(s1, c, d)
        s3 == updateAllSignals(s2, c, d)
        parentContainer ==
            IF s3.m_parent[c] # NoC
            THEN getOwningPropertyContainer(s3, s3.m_parent[c], d) ELSE NoC
        s4 == IF parentContainer # NoC
              THEN updateAllSignals(s3, parentContainer, d) ELSE s3
    IN changePropertyInternal(s4, c, d, value)

\* PropertyContainerBase::changeProperty
changeProperty(s, c, d, value) ==
    IF s.m_toContainer[c][d] = NoC THEN s
    ELSE IF ~s.alive[s.m_toContainer[c][d]] THEN raise(s, "dangling")
    ELSE changePropertyInternal(s, s.m_toContainer[c][d], d, value)

\* PropertyContainerBase::touchProperty
touchProperty(s, c, d) ==
    IF s.m_toContainer[c][d] = NoC THEN s
    ELSE IF ~s.alive[s.m_toContainer[c][d]] THEN raise(s, "dangling")
    ELSE touchPropertyInternal(s, s.m_toContainer[c][d], d)

\* PropertyContainerBase::removeProxyProperty: the child is erased, and with
\* the Record's m_property reset right after, the proxy is destroyed unless
\* another container shares it (the copy of a host holds the same object)
removeProxyProperty(s, c, p) ==
    IF p = NoC THEN s
    ELSE [s EXCEPT !.m_children[c] = Without(@, p),
                   !.alive[p] = \E x \in Conts \ {c} :
                                    s.alive[x] /\ p \in Range(s.m_children[x])]

\* PropertyContainerBase::removePropertyInternal
removePropertyInternal(s, c, d) ==
    LET s0 == touchData(s, c, d)
        oldSignals == s0.m_connectedSignals[c][d]
        oldValue == storedValue(s0, c, d)
        newContainer ==
            IF s0.m_parent[c] # NoC
            THEN getOwningPropertyContainer(s0, s0.m_parent[c], d) ELSE NoC
        s1 == setParentContainerForProperty(s0, c, d, newContainer)
        s2 == IF newContainer # NoC
              THEN LET a == addSignals(s1, newContainer, d, oldSignals)
                       newValue == getPropertyInternal(a, newContainer, d)
                   IN IF newValue.null THEN raise(a, "nullptr")
                      ELSE IF newValue.get # oldValue
                           THEN touchPropertyInternal(a, newContainer, d)
                           ELSE a
              ELSE IF oldSignals # <<>>
                   THEN [s1 EXCEPT !.m_removedProperties[c] =
                            Append(@, [pd |-> d, signals |-> oldSignals])]
                   ELSE s1
        s3 == IF s2.m_isProxyProperty[c][d]
              THEN removeProxyProperty(s2, c, proxyOf(s2, c, d)) ELSE s2
    IN IF ~s0.owned[c][d] THEN s0
       ELSE IF s2.fault # "none" THEN s2
       ELSE [s3 EXCEPT !.owned[c][d] = FALSE, !.m_value[c][d] = ValueInit,
                       !.valueChangedSince[c][d] = FALSE]

\* PropertyContainerBase::removeProperty
removeProperty(s, c, d) ==
    IF s.m_toContainer[c][d] = NoC THEN s
    ELSE IF ~s.alive[s.m_toContainer[c][d]] THEN raise(s, "dangling")
    ELSE removePropertyInternal(s, s.m_toContainer[c][d], d)

\* Signal::connect: the functor is stored under m_index, m_index++ returned
signalConnect(s, c, d, func) ==
    [s EXCEPT !.m_slots[c][d] = @ \cup {s.m_index[c][d]},
              !.slotFunc[c][d][s.m_index[c][d]] = func,
              !.m_index[c][d] = @ + 1]

\* Signal_PMF::connectPMF: try_emplace under the hash of the method
\* pointer's type; a key already present keeps the slot it has
connectPMF(s, c, d, func) ==
    IF hashVal \in s.m_slots[c][d] THEN s
    ELSE [s EXCEPT !.m_slots[c][d] = @ \cup {hashVal},
                   !.slotFunc[c][d][hashVal] = func]

\* PropertyContainerBase::connect: the Signal of c for d is linked to the
\* owner c resolves d to, then the callable is stored (cases 1 and 4 a
\* functor, cases 2 and 3 a bound method)
connect(s, c, d, func) ==
    LET s1 == touchData(s, c, d)
        s2 == IF s1.m_toContainer[c][d] # NoC
              THEN addSignal(s1, s1.m_toContainer[c][d], d, c) ELSE s1
    IN IF s1.m_toContainer[c][d] # NoC /\ ~s.alive[s1.m_toContainer[c][d]]
       THEN raise(s1, "dangling")
       ELSE IF func.kind = "pmf" THEN connectPMF(s2, c, d, func)
       ELSE signalConnect(s2, c, d, func)

\* a disconnect(pd) that leaves the slots of the Signal in place
disconnectNothing(s, c, d) == touchData(s, c, d)

\* PropertyContainerBase::disconnect(pd): Signal::disconnect() clears m_slots
disconnect(s, c, d) ==
    [touchData(s, c, d) EXCEPT !.m_slots[c][d] = {},
                               !.slotFunc[c][d] = [i \in SlotIds |-> NoFunc]]

\* PropertyContainerBase::disconnect(pd, idx): Signal::disconnect(idx)
disconnectIdx(s, c, d, idx) ==
    [touchData(s, c, d) EXCEPT !.m_slots[c][d] = @ \ {idx},
                               !.slotFunc[c][d][idx] = NoFunc]

\* an addChildContainerInternal that hands the child the descriptors c has a
\* Record of and not those c inherits
addChildContainerOwnedOnly(s, c, k) ==
    LET s0 == [s EXCEPT !.m_parent[k] = c]
        RECURSIVE propagate(_, _)
        propagate(st, ds) ==
            IF ds = {} THEN st
            ELSE LET d == CHOOSE x \in ds : TRUE
                 IN propagate(
                      IF d \in s.hasData[c] /\ ~ownsPropertyDataInternal(st, k, d)
                      THEN setParentContainerForProperty(st, k, d, c)
                      ELSE st,
                      ds \ {d})
        s1 == propagate(s0, Descs)
    IN [s1 EXCEPT !.m_children[c] = Append(@, k)]

\* PropertyContainerBase::addChildContainerInternal. The first loop runs over
\* the keys of m_propertyData, the second over m_toContainer; for one
\* descriptor the second loop's write, when there is one, is the last.
addChildContainerInternal(s, c, k) ==
    LET s0 == [s EXCEPT !.m_parent[k] = c]
        target(d) == IF s.m_toContainer[c][d] # NoC THEN s.m_toContainer[c][d]
                     ELSE IF d \in s.hasData[c] THEN c ELSE NoC
        RECURSIVE propagate(_, _)
        propagate(st, ds) ==
            IF ds = {} THEN st
            ELSE LET d == CHOOSE x \in ds : TRUE
                 IN propagate(
                      IF target(d) # NoC /\ ~ownsPropertyDataInternal(st, k, d)
                      THEN setParentContainerForProperty(st, k, d, target(d))
                      ELSE st,
                      ds \ {d})
        s1 == propagate(s0, Descs)
    IN [s1 EXCEPT !.m_children[c] = Append(@, k)]


\* ------------------------------------------------------------------ emit

\* ConvertingProxyProperty::anyPropertyChanged: Property<T>::set of the
\* recomputed value; on a change the slot PropertyData::init connected
\* marks the host's Record dirty
anyPropertyChanged(s, p) ==
    LET new == m_funcOf(p, s.m_values[p])
        RECURSIVE notify(_, _)
        notify(st, hosts) ==
            IF hosts = {} THEN st
            ELSE LET host == CHOOSE x \in hosts : TRUE
                 IN notify(setDirty([st EXCEPT
                                        !.valueChangedSince[host][keyOf(p)] = TRUE],
                                    host, keyOf(p)),
                           hosts \ {host})
    IN IF new = s.proxyValue[p] THEN s
       ELSE IF \E host \in s.propertySlots[p] : ~s.alive[host]
       THEN raise(s, "dangling")
       ELSE notify([s EXCEPT !.proxyValue[p] = new], s.propertySlots[p])

\* the ids of a Signal's slots in the order emit walks m_slots
RECURSIVE slotOrder(_)
slotOrder(ids) ==
    IF ids = {} THEN <<>>
    ELSE LET m == CHOOSE x \in ids : \A y \in ids : x <= y
         IN <<m>> \o slotOrder(ids \ {m})

\* the call  func.c.op(func.d, func.v)  an observer makes while emit() runs.
\* setProperty clears and refills m_connectedSignals of the Record it writes
\* and of the owner above it, removeProperty appends to the list of the
\* owner above or to m_removedProperties: when that vector is the one the
\* running emit() iterates, its iterators are invalidated and the behaviour
\* is undefined; "invalidated" stands for every outcome of that.
reenter(s, func) ==
    LET s0 == [s EXCEPT !.mutatedSince = [c \in Conts |-> TRUE]]
        x == func.c
        d == func.d
        owner == s.m_toContainer[x][d]
        above(y) == IF s.m_parent[y] # NoC
                    THEN getOwningPropertyContainer(s, s.m_parent[y], d)
                    ELSE NoC
        iterated(y) == /\ y # NoC
                       /\ s.emitting.phase = "changed"
                       /\ s.emitting.c = y
                       /\ s.emitting.d = d
    IN CASE func.op = "set" ->
              IF iterated(x) \/ iterated(above(x))
              THEN raise(s0, "invalidated")
              ELSE setProperty(s0, x, d, func.v)
         [] func.op = "change" -> changeProperty(s0, x, d, func.v)
         [] func.op = "touch" -> touchProperty(s0, x, d)
         [] func.op = "remove" ->
              IF /\ owner # NoC
                 /\ s.owned[owner][d]
                 /\ \/ iterated(above(owner))
                    \/ /\ above(owner) = NoC
                       /\ s.m_connectedSignals[owner][d] # <<>>
                       /\ s.emitting.phase = "removed"
                       /\ s.emitting.c = owner
              THEN raise(s0, "invalidated")
              ELSE removeProperty(s0, x, d)
         [] OTHER -> s

\* one slot call  slot(inst, value)  of the Signal of container k for d:
\* the lambda of the ConvertingProxyProperty constructor on a proxy's Signal,
\* an observer of the application otherwise
invokeSlot(s, d, k, id, value) ==
    LET call == [c |-> s.emitting.c, phase |-> s.emitting.phase,
                 k |-> k, d |-> d, id |-> id]
    IN IF ~s.alive[k] THEN raise(s, "dangling")
       ELSE IF k \in Proxies /\ s.slotFunc[k][d][id] = ProxyLambda
       THEN anyPropertyChanged([s EXCEPT !.m_values[k][d] = value,
                                         !.fired[k][d][id] = @ + 1,
                                         !.received[k][d][id] = value,
                                         !.calls = Append(@, call)], k)
       ELSE reenter([s EXCEPT !.fired[k][d][id] = @ + 1,
                              !.received[k][d][id] = value,
                              !.calls = Append(@, call)],
                    s.slotFunc[k][d][id])

\* the value behind m_valuePtr of the Record of src.c for d; the pointer of a
\* Record whose Property is gone dangles (or is null): src.garbage stands for
\* whatever is read there. The Record of a removed property (src.c = NoC)
\* points to a copy of the default value.
valueAt(s, src, d) ==
    IF src.c = NoC THEN getDefaultValue(d)
    ELSE IF s.owned[src.c][d] THEN storedValue(s, src.c, d)
    ELSE src.garbage

\* an emitUnique that never looks into alreadyInvoked
RECURSIVE emitUniqueUnchecked(_, _, _, _, _, _)
emitUniqueUnchecked(r, d, k, ids, value, dedupe) ==
    IF ids = <<>> \/ r.s.fault # "none" THEN r
    ELSE emitUniqueUnchecked(
           [s |-> invokeSlot(r.s, d, k, Head(ids), valueAt(r.s, value, d)),
            alreadyInvoked |-> r.alreadyInvoked \cup {Head(ids)}],
           d, k, Tail(ids), value, dedupe)

\* Signal::emit (dedupe FALSE) and Signal_PMF::emitUnique (dedupe TRUE) of
\* the Signal of container k for d; r is [s, alreadyInvoked]
RECURSIVE emitSignal(_, _, _, _, _, _)
emitSignal(r, d, k, ids, value, dedupe) ==
    IF ids = <<>> \/ r.s.fault # "none" THEN r
    ELSE LET id == Head(ids)
             next == IF dedupe /\ id \in r.alreadyInvoked THEN r
                     ELSE [s |-> invokeSlot(r.s, d, k, id, valueAt(r.s, value, d)),
                           alreadyInvoked |-> r.alreadyInvoked \cup {id}]
         IN emitSignal(next, d, k, Tail(ids), value, dedupe)

\* a loop over m_connectedSignals that stops after the first Signal
emitSignalsHeadOnly(r, d, signals, value, dedupe) ==
    IF signals = <<>> THEN r
    ELSE emitSignal(r, d, Head(signals),
                    slotOrder(r.s.m_slots[Head(signals)][d]), value, dedupe)

\* the loop over one dirty Record's m_connectedSignals
RECURSIVE emitSignals(_, _, _, _, _)
emitSignals(r, d, signals, value, dedupe) ==
    IF signals = <<>> THEN r
    ELSE emitSignals(
           emitSignal(r, d, Head(signals),
                      slotOrder(r.s.m_slots[Head(signals)][d]), value, dedupe),
           d, Tail(signals), value, dedupe)

\* emitEliminateDuplicates / emitWithDuplicates: the loop over the local
\* copy of m_changedProperties
RECURSIVE emitChanged(_, _, _, _, _)
emitChanged(r, c, changedProperties, dedupe, garbage) ==
    IF changedProperties = <<>> THEN r
    ELSE LET d == Head(changedProperties)
             at == [c |-> c, d |-> d, phase |-> "changed"]
         IN emitChanged(
              emitSignals([r EXCEPT !.s.emitting = at,
                                    !.s.processed[c][d] = @ + 1], d,
                          r.s.m_connectedSignals[c][d],
                          [c |-> c, garbage |-> garbage], dedupe),
              c, Tail(changedProperties), dedupe, garbage)

\* the loop over m_removedProperties: every Signal gets the default value
RECURSIVE emitRemoved(_, _)
emitRemoved(s, removed) ==
    IF removed = <<>> THEN s
    ELSE LET d == Head(removed).pd
         IN emitRemoved(
              emitSignals([s |-> s, alreadyInvoked |-> {}], d,
                          Head(removed).signals,
                          [c |-> NoC, garbage |-> 0], FALSE).s,
              Tail(removed))

\* an emit that flushes m_removedProperties before it runs the dirty Records
RECURSIVE emitRemovedFirst(_, _, _, _)
emitRemovedFirst(s, c, ignoreDuplicateCalls, garbage) ==
    LET changedProperties == s.m_changedProperties[c]
        s1 == [s EXCEPT
                 !.m_propertyChanged[c] =
                     [d \in Descs |-> IF d \in Range(changedProperties)
                                      THEN FALSE ELSE @[d]],
                 !.m_changedProperties[c] = <<>>,
                 !.snapshots[c] = @ + 1,
                 !.valueChangedSince[c] = [d \in Descs |-> FALSE],
                 !.mutatedSince[c] = FALSE]
        s2 == emitRemoved([s1 EXCEPT !.emitting =
                               [c |-> c, d |-> NoC, phase |-> "removed"]],
                          s1.m_removedProperties[c])
        s3 == emitChanged([s |-> [s2 EXCEPT !.m_removedProperties[c] = <<>>],
                           alreadyInvoked |-> {}], c,
                          changedProperties, ignoreDuplicateCalls, garbage).s
        s4 == [s3 EXCEPT !.emitting = Idle]
        RECURSIVE kids(_, _)
        kids(st, i) ==
            IF i > Len(st.m_children[c]) \/ st.fault # "none" THEN st
            ELSE kids(emitRemovedFirst(st, st.m_children[c][i],
                                       ignoreDuplicateCalls, garbage), i + 1)
    IN kids(s4, 1)

\* PropertyContainerBase::emit on container c and, recursively, its children
RECURSIVE emitRec(_, _, _, _)
emitRec(s, c, ignoreDuplicateCalls, garbage) ==
    LET changedProperties == s.m_changedProperties[c]
        s1 == [s EXCEPT
                 !.m_propertyChanged[c] =
                     [d \in Descs |-> IF d \in Range(changedProperties)
                                      THEN FALSE ELSE @[d]],
                 !.m_changedProperties[c] = <<>>,
                 !.snapshots[c] = @ + 1,
                 !.valueChangedSince[c] = [d \in Descs |-> FALSE],
                 !.mutatedSince[c] = FALSE]
        s2 == emitChanged([s |-> s1, alreadyInvoked |-> {}], c,
                          changedProperties, ignoreDuplicateCalls, garbage).s
        s3 == emitRemoved([s2 EXCEPT !.emitting =
                               [c |-> c, d |-> NoC, phase |-> "removed"]],
                          s2.m_removedProperties[c])
        s4 == [s3 EXCEPT !.m_removedProperties[c] = <<>>, !.emitting = Idle]
        RECURSIVE kids(_, _)
        kids(st, i) ==
            IF i > Len(st.m_children[c]) \/ st.fault # "none" THEN st
            ELSE kids(emitRec(st, st.m_children[c][i], ignoreDuplicateCalls,
                              garbage), i + 1)
    IN kids(s4, 1)

\* a call of emit() by the application
emit(s, c, ignoreDuplicateCalls, garbage) ==
    emitRec(forget(s), c, ignoreDuplicateCalls, garbage)


\* ------------------------------------------------------------------ proxy

\* PropertyContainerBase::setProperty with the unique_ptr of a proxy property:
\* the common part of setProperty, then the proxy branch of
\* changePropertyInternal
setProxyProperty(s, c, d, p) ==
    LET s1 == setParentContainerForProperty(s, c, d, c)
        s2 == getOrConstructPropertyInternal(s1, c, d)
        s3 == updateAllSignals(s2, c, d)
        parentContainer ==
            IF s3.m_parent[c] # NoC
            THEN getOwningPropertyContainer(s3, s3.m_parent[c], d) ELSE NoC
        s4 == IF parentContainer # NoC
              THEN updateAllSignals(s3, parentContainer, d) ELSE s3
        s5 == addChildContainerInternal(s4, c, p)
        s6 == [s5 EXCEPT !.owned[c][d] = TRUE, !.m_value[c][d] = ValueInit,
                         !.m_isProxyProperty[c][d] = TRUE,
                         !.m_copyTypeErased[c][d] = TRUE,
                         !.propertySlots[p] = @ \cup {c},
                         !.unownedAtInstall[p] =
                             \A x \in Range(m_pdsOf(p)) :
                                 ~ownsPropertyDataInternal(s, c, x)]
    IN IF getDefaultValue(d) # s6.proxyValue[p]
       THEN setDirty([s6 EXCEPT !.valueChangedSince[c][d] = TRUE], c, d)
       ELSE s6

\* ------------------------------------------------------------------ copy

\* the object the copy constructor constructs for the container it copies
\* (std::make_shared<PropertyContainer>(*child) for a child): B for R and A1
\* for A; they do not exist before
twin(c) == CASE c = "R" -> "B" [] c = "A" -> "A1" [] OTHER -> NoC

\* the orders an iteration over the unordered map m_propertyData can take
Orders == { q \in [1 .. Cardinality(Descs) -> Descs] : Range(q) = Descs }

\* PropertyContainerBase(const PropertyContainerBase& other): m_toContainer
\* is copied as it is, every Record that is not a proxy's goes through its
\* m_copyTypeErased (a null function pointer when PropertyData::init never
\* ran on the Record, assert(false) when it holds no Property), then the
\* children in order: a proxy (m_key set) is handed to setProperty of the
\* copy as the shared_ptr the original holds, any other child is copied and
\* attached
RECURSIVE copyConstruct(_, _, _, _)
copyConstruct(s, other, this, order) ==
    LET s0 == [s EXCEPT !.m_toContainer[this] = s.m_toContainer[other],
                        !.alive[this] = TRUE]
        RECURSIVE plain(_, _)
        plain(st, i) ==
            IF i > Len(order) \/ st.fault # "none" THEN st
            ELSE LET d == order[i]
                 IN plain(IF d \notin s.hasData[other]
                             \/ s.m_isProxyProperty[other][d] THEN st
                          ELSE IF ~s.m_copyTypeErased[other][d]
                          THEN raise(st, "nullcall")
                          ELSE IF s.owned[other][d]
                          THEN setProperty(st, this, d, s.m_value[other][d])
                          ELSE raise(st, "assert"),
                          i + 1)
        RECURSIVE kids(_, _)
        kids(st, i) ==
            IF i > Len(s.m_children[other]) \/ st.fault # "none" THEN st
            ELSE LET child == s.m_children[other][i]
                 IN kids(IF child \in Proxies
                         THEN setProxyProperty(st, this, keyOf(child), child)
                         ELSE addChildContainerInternal(
                                copyConstruct(st, child, twin(child), order),
                                this, twin(child)),
                         i + 1)
    IN kids(plain(s0, 1), 1)

\* the containers c holds through m_children, c included
RECURSIVE Held(_, _)
Held(s, c) == {c} \cup UNION { Held(s, k) : k \in Range(s.m_children[c]) }

\* ~PropertyContainerBase of a root: the container goes with the children
\* and Records it holds; a proxy another living container holds too stays
destroy(s, c) ==
    LET gone == Held(s, c)
        kept == { p \in gone \cap Proxies :
                    \E x \in Conts \ gone :
                        s.alive[x] /\ p \in Range(s.m_children[x]) }
    IN [s EXCEPT !.alive = [x \in Conts |->
                              @[x] /\ (x \notin gone \/ x \in kept)]]

\* ------------------------------------------------------------------ initial state

\* the state of a ConvertingProxyProperty after its constructor: the inputs
\* read through its own, empty, container (the defaults), one closure
\* connected per input, the value computed once
InitData(c) == IF c \in Proxies THEN Range(m_pdsOf(c)) ELSE {}

\* the trees the runs start from: every container standalone, or the empty
\* containers already attached as in the hierarchy tests (R with the
\* children A and B, A with the child A1)
InitTrees ==
    { [parent |-> [c \in Conts |-> NoC], children |-> [c \in Conts |-> <<>>]],
      [parent |-> [c \in Conts |->
                     CASE c = "A" -> "R" [] c = "B" -> "R" [] c = "A1" -> "A"
                       [] OTHER -> NoC],
       children |-> [c \in Conts |->
                     CASE c = "R" -> <<"A", "B">> [] c = "A" -> <<"A1">>
                       [] OTHER -> <<>>]] }

\* the fields after construction, for the tree the run starts from
Start(tree) ==
    [m_parent |-> tree.parent,
     m_children |-> tree.children,
     hasData |-> [c \in Conts |-> InitData(c)],
     owned |-> [c \in Conts |-> [d \in Descs |-> FALSE]],
     m_value |-> [c \in Conts |-> [d \in Descs |-> ValueInit]],
     m_isProxyProperty |-> [c \in Conts |-> [d \in Descs |-> FALSE]],
     m_propertyChanged |-> [c \in Conts |-> [d \in Descs |-> FALSE]],
     m_connectedSignals |-> [c \in Conts |-> [d \in Descs |-> <<>>]],
     m_toContainer |-> [c \in Conts |-> [d \in Descs |-> NoC]],
     m_changedProperties |-> [c \in Conts |-> <<>>],
     m_removedProperties |-> [c \in Conts |-> <<>>],
     m_slots |-> [c \in Conts |-> [d \in Descs |->
                     IF d \in InitData(c) THEN {0} ELSE {}]],
     m_index |-> [c \in Conts |-> [d \in Descs |->
                     IF d \in InitData(c) THEN 1 ELSE 0]],
     slotFunc |-> [c \in Conts |-> [d \in Descs |-> [i \in SlotIds |->
                     IF d \in InitData(c) /\ i = 0 THEN ProxyLambda ELSE NoFunc]]],
     m_values |-> [p \in Proxies |-> [d \in Descs |-> getDefaultValue(d)]],
     proxyValue |-> [p \in Proxies |->
                       m_funcOf(p, [d \in Descs |-> getDefaultValue(d)])],
     alive |-> [c \in Conts |-> TRUE],
     m_copyTypeErased |-> [c \in Conts |-> [d \in Descs |-> FALSE]],
     propertySlots |-> [p \in Proxies |-> {}],
     fault |-> "none",
     fired |-> NoFired,
     received |-> NoReceived,
     processed |-> [c \in Conts |-> [d \in Descs |-> 0]],
     snapshots |-> [c \in Conts |-> 0],
     calls |-> <<>>,
     emitting |-> Idle,
     valueChangedSince |-> [c \in Conts |-> [d \in Descs |-> FALSE]],
     mutatedSince |-> [c \in Conts |-> FALSE],
     unownedAtInstall |-> [p \in Proxies |-> FALSE]]

\* a run starts in state s with no operation called yet
StartsIn(s) ==
    /\ m_parent = s.m_parent
    /\ m_children = s.m_children
    /\ hasData = s.hasData
    /\ owned = s.owned
    /\ m_value = s.m_value
    /\ m_isProxyProperty = s.m_isProxyProperty
    /\ m_propertyChanged = s.m_propertyChanged
    /\ m_connectedSignals = s.m_connectedSignals
    /\ m_toContainer = [x \in Conts |-> [d \in Descs |-> s.m_toContainer[x][d]]]
    /\ m_changedProperties = s.m_changedProperties
    /\ m_removedProperties = s.m_removedProperties
    /\ m_slots = s.m_slots
    /\ m_index = s.m_index
    /\ slotFunc = s.slotFunc
    /\ m_values = s.m_values
    /\ proxyValue = s.proxyValue
    /\ alive = s.alive
    /\ m_copyTypeErased = s.m_copyTypeErased
    /\ propertySlots = s.propertySlots
    /\ fault = s.fault
    /\ fired = s.fired
    /\ received = s.received
    /\ processed = s.processed
    /\ snapshots = s.snapshots
    /\ calls = s.calls
    /\ emitting = s.emitting
    /\ valueChangedSince = s.valueChangedSince
    /\ mutatedSince = s.mutatedSince
    /\ unownedAtInstall = s.unownedAtInstall
    /\ ops = 0
    /\ redundantWrite = FALSE

Init == \E tree \in InitTrees : StartsIn(Start(tree))

\* ------------------------------------------------------------------ actions

\* the root of the tree c is in
RECURSIVE rootOf(_, _)
rootOf(s, c) == IF s.m_parent[c] = NoC THEN c ELSE rootOf(s, s.m_parent[c])

\* the children addChildContainer is called with: A and B under R, A1 under A
AttachPairs == {<<"R", "A">>, <<"A", "A1">>, <<"R", "B">>}

SetProperty(c, d, v) ==
    /\ fault = "none"
    /\ Install(setProperty(noteMutation(Cur), c, d, v),
               owned[c][d] /\ storedValue(Cur, c, d) = v)

ChangeProperty(c, d, v) ==
    /\ fault = "none"
    /\ Install(changeProperty(noteMutation(Cur), c, d, v),
               /\ m_toContainer[c][d] # NoC
               /\ owned[m_toContainer[c][d]][d]
               /\ storedValue(Cur, m_toContainer[c][d], d) = v)

TouchProperty(c, d) ==
    /\ fault = "none"
    /\ Install(touchProperty(noteMutation(Cur), c, d), FALSE)

RemoveProperty(c, d) ==
    /\ fault = "none"
    /\ \A x \in Conts : Len(m_removedProperties[x]) < MaxRemoved
    /\ Install(removeProperty(noteMutation(Cur), c, d), FALSE)

Connect(c, d, func) ==
    /\ fault = "none"
    /\ func.kind = "closure" => m_index[c][d] < MaxConnects
    /\ Install(connect(forget(Cur), c, d, func), FALSE)

Disconnect(c, d) ==
    /\ fault = "none"
    /\ Install(disconnect(forget(Cur), c, d), FALSE)

DisconnectIdx(c, d, idx) ==
    /\ fault = "none"
    /\ idx < m_index[c][d]
    /\ Install(disconnectIdx(forget(Cur), c, d, idx), FALSE)

AddChildContainer(c, k) ==
    /\ fault = "none"
    /\ m_parent[k] = NoC
    /\ rootOf(Cur, c) # k
    /\ Install(addChildContainerInternal(forget(Cur), c, k), FALSE)

Emit(c, ignoreDuplicateCalls) ==
    /\ fault = "none"
    /\ m_parent[c] = NoC
    /\ \E garbage \in Values :
         Install(emit(Cur, c, ignoreDuplicateCalls, garbage), FALSE)

SetProxyProperty(c, d, p) ==
    /\ fault = "none"
    /\ alive[p]
    /\ m_parent[p] = NoC
    /\ Install(setProxyProperty(noteMutation(Cur), c, d, p), FALSE)

\* the container tree with plain properties of one descriptor and observers
TreeDescs == {"StringPD"}

Next ==
    \/ \E c \in PlainConts, d \in TreeDescs, v \in Values : SetProperty(c, d, v)
    \/ \E c \in PlainConts, d \in TreeDescs, v \in Values : ChangeProperty(c, d, v)
    \/ \E c \in PlainConts, d \in TreeDescs : TouchProperty(c, d)
    \/ \E c \in PlainConts, d \in TreeDescs : RemoveProperty(c, d)
    \/ \E c \in PlainConts, d \in TreeDescs : Connect(c, d, F)
    \/ \E c \in PlainConts, d \in TreeDescs : Disconnect(c, d)
    \/ \E c \in PlainConts, d \in TreeDescs, i \in SlotIds : DisconnectIdx(c, d, i)
    \/ \E pair \in AttachPairs : AddChildContainer(pair[1], pair[2])
    \/ \E c \in PlainConts, b \in BOOLEAN : Emit(c, b)

Spec == Init /\ [][Next]_vars

\* a host R with the computed property P of the proxy tests: the proxy is
\* installed under StringResultPD, its inputs IntPD and StringPD are set,
\* changed and removed on the host, observers are connected on the host
HostConts == {"R"}

InitProxy == Init /\ \A c \in Conts : m_parent[c] = NoC

NextProxy ==
    \/ \E c \in HostConts, p \in Formatters : SetProxyProperty(c, ProxyKey, p)
    \/ \E c \in HostConts, d \in Range(m_pds), v \in Values : SetProperty(c, d, v)
    \/ \E c \in HostConts, d \in Range(m_pds), v \in Values : ChangeProperty(c, d, v)
    \/ \E c \in HostConts, d \in Descs : RemoveProperty(c, d)
    \/ \E c \in HostConts, d \in Descs : Connect(c, d, F)
    \/ \E c \in HostConts, b \in BOOLEAN : Emit(c, b)

SpecProxy == InitProxy /\ [][NextProxy]_vars


\* ------------------------------------------------------------------ notions of the claims

\* container c owns descriptor d: it holds a Record with a Property
Owns(s, c, d) == s.owned[c][d]

\* the nearest container on the path c, parent(c), ..., root that owns d
RECURSIVE NearestOwner(_, _, _)
NearestOwner(s, c, d) ==
    IF Owns(s, c, d) THEN c
    ELSE IF s.m_parent[c] = NoC THEN NoC
    ELSE NearestOwner(s, s.m_parent[c], d)

\* x is c or a descendant of c
RECURSIVE InSubtree(_, _, _)
InSubtree(s, x, c) ==
    x = c \/ (s.m_parent[x] # NoC /\ InSubtree(s, s.m_parent[x], c))

\* x is c, or a descendant of c with no owner of d on the path from x up to,
\* but not including, c: the containers a property set at c is visible at
RECURSIVE InRegion(_, _, _, _)
InRegion(s, x, c, d) ==
    x = c \/ (/\ s.m_parent[x] # NoC
              /\ ~Owns(s, x, d)
              /\ InRegion(s, s.m_parent[x], c, d))

\* the owners of d
Owners(s, d) == {c \in Conts : Owns(s, c, d)}

\* what getProperty and hasProperty answer at every container
View(s, d) == [c \in Conts |-> <<getProperty(s, c, d), hasProperty(s, c, d)>>]

\* ------------------------------------------------------------------ claims

\* C1: in every reachable state the visibility-index entry of every container
\* C for every descriptor D is the nearest owner of D on the path from C to
\* the root, and there is no entry when no container on that path owns D.
C1_VisibilityIndex ==
    \A c \in Conts, d \in Descs :
        m_toContainer[c][d] = NearestOwner(Cur, c, d)

\* C2: if a container on the path from C to the root owns D, getProperty(C, D)
\* is the value stored at the nearest such owner and hasProperty(C, D) is
\* true; otherwise getProperty(C, D) is D's default and hasProperty is false.
C2_GetAndHasProperty ==
    \A c \in Conts, d \in Descs :
        LET o == NearestOwner(Cur, c, d)
        IN IF o # NoC
           THEN /\ getProperty(Cur, c, d) = storedValue(Cur, o, d)
                /\ hasProperty(Cur, c, d)
           ELSE /\ getProperty(Cur, c, d) = getDefaultValue(d)
                /\ ~hasProperty(Cur, c, d)

\* C3: setProperty(D, v) on C makes getProperty(D) return v at C and at every
\* descendant of C not at or below another owner of D, and leaves
\* getProperty(D) unchanged at every other container.
C3_SetPropertyFrame ==
    \A c \in PlainConts, d \in TreeDescs, v \in Values :
        LET t == setProperty(Cur, c, d, v)
        IN t.fault = "none" =>
             \A x \in Conts :
                 IF InRegion(Cur, x, c, d)
                 THEN getProperty(t, x, d) = v
                 ELSE getProperty(t, x, d) = getProperty(Cur, x, d)

\* C3 witness: A's value shadows R's for A and its child A1, while R and the
\* sibling B keep R's value
C3_Witness ==
    /\ m_parent["A"] = "R" /\ m_parent["A1"] = "A" /\ m_parent["B"] = "R"
    /\ owned["R"]["StringPD"] /\ owned["A"]["StringPD"]
    /\ ~owned["A1"]["StringPD"] /\ ~owned["B"]["StringPD"]
    /\ m_value["R"]["StringPD"] # m_value["A"]["StringPD"]
    /\ getProperty(Cur, "A1", "StringPD") = m_value["A"]["StringPD"]
    /\ getProperty(Cur, "A", "StringPD") = m_value["A"]["StringPD"]
    /\ getProperty(Cur, "B", "StringPD") = m_value["R"]["StringPD"]
    /\ getProperty(Cur, "R", "StringPD") = m_value["R"]["StringPD"]

\* C4: if A does not own D, A.setProperty(D, v) followed by
\* A.removeProperty(D) restores the getProperty(D) and hasProperty(D) results
\* of every container.
C4_SetRemoveRoundTrip ==
    \A c \in PlainConts, d \in TreeDescs, v \in Values :
        ~Owns(Cur, c, d) =>
            LET t == removeProperty(setProperty(Cur, c, d, v), c, d)
            IN t.fault = "none" => View(t, d) = View(Cur, d)


\* the containers of the tree below (and including) r
Subtree(s, r) == {c \in Conts : InSubtree(s, c, r)}

\* the roots emit() is called on
Roots(s) == {c \in PlainConts : s.m_parent[c] = NoC}

\* nothing happened in the tree of r since the last emit() on it
Quiet(s, r) ==
    \A c \in Subtree(s, r) :
        ~s.mutatedSince[c] /\ \A d \in Descs : ~s.valueChangedSince[c][d]

\* C5: each emit() on the root that follows a value change of the Record an
\* observer's container resolves D to invokes the observer exactly once, and
\* an emit() with no change, touch or removal since the previous emit
\* invokes no observer.
C5_ObserverOncePerEmit ==
    fault = "none" =>
    \A r \in Roots(Cur), garbage \in Values :
        LET t == emit(Cur, r, TRUE, garbage)
        IN /\ \A k \in Subtree(Cur, r) \cap PlainConts, d \in TreeDescs :
                \A id \in m_slots[k][d] :
                    LET o == m_toContainer[k][d]
                    IN (o # NoC /\ o = NearestOwner(Cur, k, d)
                        /\ valueChangedSince[o][d])
                           => t.fault = "none" /\ t.fired[k][d][id] = 1
           /\ Quiet(Cur, r) => t.fired = NoFired

\* C6: removeProperty(D) on a container that does not itself own D changes
\* nothing: the owners of D and every getProperty(D) and hasProperty(D)
\* result stay as they were.
C6_RemoveAtNonOwner ==
    \A c \in PlainConts, d \in TreeDescs :
        ~Owns(Cur, c, d) =>
            LET t == removeProperty(Cur, c, d)
            IN /\ Owners(t, d) = Owners(Cur, d)
               /\ View(t, d) = View(Cur, d)

\* C7: changeProperty(D, v) on a container whose nearest owner of D is O
\* stores v at O, so that the containers resolving D to O read v; the owners
\* of D and every visibility-index entry are unchanged, and the containers
\* resolving D to another owner keep their value.
C7_ChangePropertyFrame ==
    fault = "none" =>
    \A c \in PlainConts, d \in TreeDescs, v \in Values :
        LET o == NearestOwner(Cur, c, d)
            t == changeProperty(Cur, c, d, v)
        IN o # NoC =>
             /\ t.fault = "none"
             /\ storedValue(t, o, d) = v
             /\ Owners(t, d) = Owners(Cur, d)
             /\ t.m_toContainer = m_toContainer
             /\ \A x \in Conts :
                    IF NearestOwner(Cur, x, d) = o
                    THEN getProperty(t, x, d) = v
                    ELSE getProperty(t, x, d) = getProperty(Cur, x, d)

\* the slots an emit() on root r would invoke, with their counts
WouldFire(s, r, garbage) == emit(s, r, TRUE, garbage).fired

\* C8: changeProperty(D, v) on a container with no owner of D on its path to
\* the root creates no ownership and stores nothing: hasProperty stays false,
\* getProperty stays the default, no Record becomes dirty and the next emit
\* invokes no observer because of it.
C8_ChangeWithoutOwner ==
    fault = "none" =>
    \A c \in PlainConts, d \in TreeDescs, v \in Values :
        LET t == changeProperty(Cur, c, d, v)
        IN NearestOwner(Cur, c, d) = NoC =>
             /\ t.fault = "none"
             /\ Owners(t, d) = Owners(Cur, d)
             /\ t.m_value = m_value
             /\ ~hasProperty(t, c, d)
             /\ getProperty(t, c, d) = getDefaultValue(d)
             /\ t.m_changedProperties = m_changedProperties
             /\ t.m_propertyChanged = m_propertyChanged
             /\ \A r \in Roots(Cur), garbage \in Values :
                    WouldFire(t, r, garbage) = WouldFire(Cur, r, garbage)

\* no Record of d is dirty and no removal of d is pending in the tree of r
CleanFor(s, r, d) ==
    \A c \in Subtree(s, r) :
        /\ d \notin Range(s.m_changedProperties[c])
        /\ \A i \in DOMAIN s.m_removedProperties[c] :
               s.m_removedProperties[c][i].pd # d

\* the write that led from the current state to t dirtied nothing, and with
\* no Record of d dirty the next emit invokes no observer of d
NoNotification(t, d) ==
    /\ t.fault = "none"
    /\ t.m_changedProperties = m_changedProperties
    /\ t.m_propertyChanged = m_propertyChanged
    /\ \A r \in Roots(Cur) :
           CleanFor(Cur, r, d) =>
               \A b \in BOOLEAN, garbage \in Values :
                   LET invoked == emit(t, r, b, garbage).fired
                   IN \A k \in Conts, id \in SlotIds : invoked[k][d][id] = 0

\* how often d is in the dirty list of c
DirtyCount(s, c, d) ==
    Cardinality({i \in DOMAIN s.m_changedProperties[c] :
                   s.m_changedProperties[c][i] = d})

\* C9: setProperty(D, v) or changeProperty(D, v) on a container whose owning
\* Record already stores v marks no Record dirty, so that the next emit
\* invokes no observer of D if no Record of D was dirty; setProperty(D, v)
\* twice in a row dirties the Record at most once.
C9_RedundantWrite ==
    fault = "none" =>
    \A c \in PlainConts, d \in TreeDescs, v \in Values :
        /\ (Owns(Cur, c, d) /\ storedValue(Cur, c, d) = v)
               => NoNotification(setProperty(Cur, c, d, v), d)
        /\ (/\ m_toContainer[c][d] # NoC
            /\ Owns(Cur, m_toContainer[c][d], d)
            /\ storedValue(Cur, m_toContainer[c][d], d) = v)
               => NoNotification(changeProperty(Cur, c, d, v), d)
        /\ LET t1 == setProperty(Cur, c, d, v)
               t2 == setProperty(t1, c, d, v)
           IN /\ t2.m_changedProperties = t1.m_changedProperties
              /\ DirtyCount(t2, c, d) <= 1

\* C9 witness: a redundant write was the last operation, on a Record that
\* stores a value other than T{} and is clean, in a tree with a descendant
\* reading the value
C9_Witness ==
    /\ redundantWrite
    /\ \E c \in PlainConts, d \in TreeDescs :
           /\ owned[c][d] /\ m_value[c][d] # ValueInit
           /\ ~m_propertyChanged[c][d]
           /\ m_changedProperties[c] = <<>>
           /\ \E k \in PlainConts : k # c /\ m_toContainer[k][d] = c


\* C10: a computed property installed on a host that owns none of its inputs
\* reads f(default(X), default(Y)) right after the installation, and after
\* each later setProperty of an input on the host followed by one emit() it
\* reads f of the inputs' values current at that emit.
C10_ComputedRecomputation ==
    fault = "none" =>
    \A c \in HostConts, p \in Formatters :
        /\ (/\ m_parent[p] = NoC /\ alive[p]
            /\ \A x \in Range(m_pds) : ~ownsPropertyDataInternal(Cur, c, x))
               => LET t == setProxyProperty(Cur, c, ProxyKey, p)
                  IN getProperty(t, c, ProxyKey)
                       = m_func(getDefaultValue(m_pds[1]), getDefaultValue(m_pds[2]))
        /\ (/\ proxyOf(Cur, c, ProxyKey) = p /\ alive[p]
            /\ unownedAtInstall[p] /\ m_parent[c] = NoC)
               => \A d \in Range(m_pds), v \in Values, garbage \in Values :
                      LET t == emit(setProperty(Cur, c, d, v), c, TRUE, garbage)
                      IN /\ t.fault = "none"
                         /\ getProperty(t, c, ProxyKey)
                              = m_func(getProperty(t, c, m_pds[1]),
                                       getProperty(t, c, m_pds[2]))


\* the computed property of proxy p, installed on host c, is f of the inputs'
\* values as seen from c
Fresh(s, c, p) ==
    getProperty(s, c, ProxyKey)
        = m_func(getProperty(s, c, m_pds[1]), getProperty(s, c, m_pds[2]))

\* C11: a computed property installed on a host is subscribed to its input X
\* whether X was set before or after the installation: every later value
\* change of X by setProperty or changeProperty on the host, followed by one
\* emit(), leaves getProperty(computed) equal to f of the current inputs
\* (the other inputs being the ones the proxy has cached).
C11_SubscribedWhateverTheOrder ==
    fault = "none" =>
    \A c \in HostConts, p \in Formatters :
        (proxyOf(Cur, c, ProxyKey) = p /\ alive[p] /\ m_parent[c] = NoC) =>
            \A d \in Range(m_pds), v \in Values, garbage \in Values :
                (/\ NearestOwner(Cur, c, d) # NoC
                 /\ \A y \in Range(m_pds) \ {d} :
                        m_values[p][y] = getProperty(Cur, c, y)) =>
                    /\ LET w == setProperty(Cur, c, d, v)
                           t == emit(w, c, TRUE, garbage)
                       IN getProperty(w, c, d) # getProperty(Cur, c, d)
                              => t.fault = "none" /\ Fresh(t, c, p)
                    /\ LET w == changeProperty(Cur, c, d, v)
                           t == emit(w, c, TRUE, garbage)
                       IN getProperty(w, c, d) # getProperty(Cur, c, d)
                              => t.fault = "none" /\ Fresh(t, c, p)

\* C12: the initial value of a computed property is computed from the host's
\* current inputs: installed on a host that sees an input already set, it
\* reads f of the values the host sees, right after the call and before any
\* emit.
C12_InitialValueFromHost ==
    fault = "none" =>
    \A c \in HostConts, p \in Formatters :
        (/\ m_parent[p] = NoC /\ alive[p]
         /\ \E x \in Range(m_pds) : NearestOwner(Cur, c, x) # NoC)
            => LET t == setProxyProperty(Cur, c, ProxyKey, p)
               IN t.fault = "none" /\ Fresh(t, c, p)

\* ------------------------------------------------------------------ observers that mutate

\* the hierarchy of the tests (R with the children A and B, A with A1)
AttachedTree == CHOOSE tree \in InitTrees : tree.parent["A"] = "R"

\* StringPD set at R and at A, everything emitted: the state the observer
\* tests connect their observers in
Prepared ==
    forget(emit(setProperty(setProperty(Start(AttachedTree),
                                        "R", "StringPD", 2),
                            "A", "StringPD", 2),
                "R", TRUE, 0))

ReentrantConts == {"R", "A"}

\* observers that call  x.op(StringPD, 1)  when they are notified
Reactors ==
    { Callable("closure", op, x, "StringPD", 1) :
        op \in {"set", "change", "touch", "remove"}, x \in ReentrantConts }

InitReentrant == StartsIn(Prepared)

NextReentrant ==
    \/ \E c \in ReentrantConts, v \in Values : SetProperty(c, "StringPD", v)
    \/ \E c \in ReentrantConts, v \in Values : ChangeProperty(c, "StringPD", v)
    \/ \E c \in ReentrantConts : TouchProperty(c, "StringPD")
    \/ \E c \in ReentrantConts : RemoveProperty(c, "StringPD")
    \/ \E c \in ReentrantConts, func \in Reactors \cup {G} :
          Connect(c, "StringPD", func)
    \/ \E b \in BOOLEAN : Emit("R", b)

SpecReentrant == InitReentrant /\ [][NextReentrant]_vars

\* the same state with every mutating observer replaced by a counting one
Passive(s) ==
    [s EXCEPT !.slotFunc =
        [k \in Conts |-> [d \in Descs |-> [i \in SlotIds |->
            IF s.slotFunc[k][d][i] \in Reactors THEN G
            ELSE s.slotFunc[k][d][i]]]]]

\* C13: a mutation made by an observer while emit() runs causes no observer
\* invocation before that emit() returns: in every state, an emit() of the
\* tree invokes no slot more often than the same emit() does when the
\* observers mutate nothing (what the mutation dirtied is left for the next
\* emit()).
C13_ReentrantDeferred ==
    fault = "none" =>
        \A b \in BOOLEAN, garbage \in Values :
            LET t == emit(Cur, "R", b, garbage)
                u == emit(Passive(Cur), "R", b, garbage)
            IN t.fault = "none" =>
                   \A k \in Conts, d \in Descs, i \in SlotIds :
                       t.fired[k][d][i] <= u.fired[k][d][i]

\* ------------------------------------------------------------------ a cycle of computed properties

\* the test hierarchy with P installed at R under StringResultPD and then Q
\* under IntPD: P is computed from IntPD, IntPD is computed from P's value
Wired ==
    setProxyProperty(setProxyProperty(Start(AttachedTree),
                                      "R", keyOf("P"), "P"),
                     "R", keyOf("Q"), "Q")

InitCycle == StartsIn(Wired)

CycleConts == {"R", "A"}

NextCycle ==
    \/ \E c \in CycleConts, d \in {"StringPD", "StringResultPD"}, v \in Values :
          SetProperty(c, d, v)
    \/ \E c \in CycleConts, v \in Values : ChangeProperty(c, "StringPD", v)
    \/ \E d \in Descs : Connect("R", d, F)
    \/ \E b \in BOOLEAN : Emit("R", b)

SpecCycle == InitCycle /\ [][NextCycle]_vars

\* C14: every emit() terminates, also when computed properties form a
\* cycle: during one top-level emit() every container copies its dirty list
\* at most once and every Record is taken from such a copy at most once.
C14_EmitBounded ==
    fault = "none" =>
        \A c \in Conts :
            /\ snapshots[c] <= 1
            /\ \A d \in Descs : processed[c][d] <= 1

\* an emit() in which both Records of the cycle were processed and both were
\* made dirty again by the recomputation the other one triggered
C14_Witness ==
    /\ fault = "none"
    /\ snapshots["R"] = 1
    /\ \A p \in Proxies :
          /\ proxyOf(Cur, "R", keyOf(p)) = p
          /\ processed["R"][keyOf(p)] = 1
          /\ keyOf(p) \in Range(m_changedProperties["R"])
          /\ proxyValue[p] # m_funcOf(p, [d \in Descs |-> getDefaultValue(d)])

\* ------------------------------------------------------------------ observers on owner and descendant

\* R owns StringPD and B, its child, inherits it
ObserverConts == {"R", "B"}

InitObservers == StartsIn(Prepared)

NextObservers ==
    \/ \E c \in ObserverConts, func \in Counting : Connect(c, "StringPD", func)
    \/ \E c \in ObserverConts : Disconnect(c, "StringPD")
    \/ \E c \in ObserverConts, v \in Values : ChangeProperty(c, "StringPD", v)
    \/ \E b \in BOOLEAN : Emit("R", b)

SpecObservers == InitObservers /\ [][NextObservers]_vars

\* the slots that hold the callable func
SlotsOf(s, func) ==
    { x \in Conts \X Descs \X SlotIds :
        x[3] \in s.m_slots[x[1]][x[2]] /\ s.slotFunc[x[1]][x[2]][x[3]] = func }

\* how often the last emit() invoked the callable func, over all its slots
RECURSIVE CallsIn(_, _)
CallsIn(s, slots) ==
    IF slots = {} THEN 0
    ELSE LET x == CHOOSE y \in slots : TRUE
         IN s.fired[x[1]][x[2]][x[3]] + CallsIn(s, slots \ {x})
Calls(s, func) == CallsIn(s, SlotsOf(s, func))

\* connect(d, func) called n times on c
RECURSIVE connectTimes(_, _, _, _, _)
connectTimes(s, c, d, func, n) ==
    IF n = 0 THEN s ELSE connectTimes(connect(s, c, d, func), c, d, func, n - 1)

\* C15: connecting the identical bound method to one descriptor on one
\* container k times registers one observer: the emit() that follows a
\* change of the value the container sees invokes the method exactly once.
C15_BoundMethodOnce ==
    fault = "none" =>
        \A c \in ObserverConts, k \in 1 .. MaxRepeat, v \in Values :
            (/\ Quiet(Cur, "R")
             /\ CleanFor(Cur, "R", "StringPD")
             /\ SlotsOf(Cur, dirtyIntFunc) = {}
             /\ NearestOwner(Cur, c, "StringPD") # NoC
             /\ getProperty(Cur, c, "StringPD") # v) =>
                LET s1 == connectTimes(Cur, c, "StringPD", dirtyIntFunc, k)
                    s2 == changeProperty(s1, c, "StringPD", v)
                IN \A b \in BOOLEAN, garbage \in Values :
                       LET t == emit(s2, "R", b, garbage)
                       IN t.fault = "none" /\ Calls(t, dirtyIntFunc) = 1

\* C16: the same callable connected for D on the owner of D and on a
\* descendant that inherits D from it is invoked, after one value change,
\* exactly once in total by emit() and exactly twice by emit(false).
C16_SameCallableTwice ==
    fault = "none" =>
        \A o \in ObserverConts, k \in ObserverConts, v \in Values,
           func \in {F, G} :
            (/\ Quiet(Cur, "R")
             /\ CleanFor(Cur, "R", "StringPD")
             /\ SlotsOf(Cur, func) = {}
             /\ k # o
             /\ Owns(Cur, o, "StringPD")
             /\ NearestOwner(Cur, k, "StringPD") = o
             /\ storedValue(Cur, o, "StringPD") # v) =>
                LET s1 == connect(connect(Cur, o, "StringPD", func),
                                  k, "StringPD", func)
                    s2 == changeProperty(s1, o, "StringPD", v)
                IN \A garbage \in Values :
                       LET t == emit(s2, "R", TRUE, garbage)
                           u == emit(s2, "R", FALSE, garbage)
                       IN /\ t.fault = "none" /\ Calls(t, func) = 1
                          /\ u.fault = "none" /\ Calls(u, func) = 2

\* ------------------------------------------------------------------ emit(false) and removals

\* the containers among cs whose dirty list holds d and whose Record for d
\* has the Signal of k in its connected list
DirtyRecordsWith(s, cs, d, k) ==
    { c \in cs : /\ d \in Range(s.m_changedProperties[c])
                 /\ k \in Range(s.m_connectedSignals[c][d]) }

\* no removed-property notification is pending in the containers cs
NoneRemoved(s, cs) == \A c \in cs : s.m_removedProperties[c] = <<>>

\* what a dangling m_valuePtr may read: it is only read when a dirty Record
\* has lost its Property
Dangling(s, cs) ==
    IF \E c \in cs : \E d \in Range(s.m_changedProperties[c]) : ~s.owned[c][d]
    THEN Values ELSE {0}

\* C17: emit(false) invokes, for every Record that is dirty when its owner's
\* pass starts and every Signal in that Record's connected list, every
\* callback of that Signal exactly once, with the Record's current value:
\* a slot is invoked once per dirty Record its Signal is connected to, and
\* no slot of a Signal that no dirty Record lists is invoked.
C17_EmitWithDuplicates ==
    fault = "none" =>
        \A r \in Roots(Cur) :
            LET sub == Subtree(Cur, r)
            IN NoneRemoved(Cur, sub) =>
                 \A garbage \in Dangling(Cur, sub) :
                    LET t == emit(Cur, r, FALSE, garbage)
                    IN /\ t.fault = "none"
                       /\ \A k \in Conts, d \in Descs :
                            LET from == DirtyRecordsWith(Cur, sub, d, k)
                                n == Cardinality(from)
                            IN \A id \in SlotIds :
                                /\ t.fired[k][d][id] =
                                     IF id \in m_slots[k][d] THEN n ELSE 0
                                /\ \A c \in from :
                                     (/\ n = 1
                                      /\ Owns(Cur, c, d)
                                      /\ id \in m_slots[k][d]) =>
                                         t.received[k][d][id]
                                             = storedValue(Cur, c, d)

\* a dirty Record whose connected list holds two Signals with a callback
\* each, both invoked once by emit(false) with the Record's value
C17_Witness ==
    /\ fault = "none"
    /\ \E c \in PlainConts, d \in TreeDescs, k1 \in PlainConts, k2 \in PlainConts :
          /\ k1 # k2
          /\ Owns(Cur, c, d)
          /\ d \in Range(m_changedProperties[c])
          /\ {k1, k2} \subseteq Range(m_connectedSignals[c][d])
          /\ m_slots[k1][d] # {} /\ m_slots[k2][d] # {}
          /\ m_parent[c] = NoC
          /\ LET t == emit(Cur, c, FALSE, 0)
             IN \A k \in {k1, k2} : \A id \in m_slots[k][d] :
                    t.fired[k][d][id] = 1 /\ t.received[k][d][id] = m_value[c][d]

\* no container above c owns d
NoOwnerAbove(s, c, d) ==
    s.m_parent[c] = NoC \/ NearestOwner(s, s.m_parent[c], d) = NoC

\* C18: when removeProperty(D) at owner O leaves no owner of D on the path
\* from O to the root and the removed value differed from D's default, the
\* next emit() invokes every observer connected for D at O or at O's
\* uncovered descendants exactly once, with D's default value, and the emit()
\* after that does not invoke it again.
C18_RemovalNotifiedOnce ==
    fault = "none" =>
        \A o \in PlainConts, d \in TreeDescs :
            (/\ Owns(Cur, o, d)
             /\ NoOwnerAbove(Cur, o, d)
             /\ storedValue(Cur, o, d) # getDefaultValue(d)) =>
                LET w == removeProperty(Cur, o, d)
                    r == rootOf(Cur, o)
                IN \A garbage \in Dangling(w, Subtree(Cur, r)) :
                       LET t == emit(w, r, TRUE, garbage)
                           u == emit(t, r, TRUE, garbage)
                       IN /\ t.fault = "none" /\ u.fault = "none"
                          /\ \A k \in PlainConts :
                               InRegion(Cur, k, o, d) =>
                                   \A id \in m_slots[k][d] :
                                       /\ t.fired[k][d][id] = 1
                                       /\ t.received[k][d][id] = getDefaultValue(d)
                                       /\ u.fired[k][d][id] = 0

\* C19: removeProperty(D) at the only owner of D, when the stored value is
\* D's default, triggers no update: with nothing of D pending before, the
\* next emit() invokes no observer of D.
C19_RemovalOfDefaultSilent ==
    fault = "none" =>
        \A o \in PlainConts, d \in TreeDescs :
            (/\ Owners(Cur, d) = {o}
             /\ storedValue(Cur, o, d) = getDefaultValue(d)
             /\ CleanFor(Cur, rootOf(Cur, o), d)) =>
                LET w == removeProperty(Cur, o, d)
                    r == rootOf(Cur, o)
                IN \A b \in BOOLEAN :
                       LET t == emit(w, r, b, 0)
                       IN /\ t.fault = "none"
                          /\ \A k \in Conts, id \in SlotIds :
                               t.fired[k][d][id] = 0

\* C20: if D is owned by an ancestor R and by a nearer container A, then
\* R.removeProperty(D) followed by emit() invokes no observer connected for
\* D at A or at A's uncovered descendants: the emit() invokes each of them
\* as often as it would have without the removal.
C20_RemovalAboveShadow ==
    fault = "none" =>
        \A o \in PlainConts, a \in PlainConts, d \in TreeDescs :
            (/\ a # o
             /\ InSubtree(Cur, a, o)
             /\ Owns(Cur, o, d)
             /\ Owns(Cur, a, d)) =>
                LET w == removeProperty(Cur, o, d)
                    r == rootOf(Cur, o)
                IN \A garbage \in Dangling(w, Subtree(Cur, r)) :
                       LET t == emit(w, r, TRUE, garbage)
                           u == emit(Cur, r, TRUE, garbage)
                       IN /\ t.fault = "none"
                          /\ \A k \in PlainConts :
                               InRegion(Cur, k, a, d) =>
                                   \A id \in m_slots[k][d] :
                                       t.fired[k][d][id] = u.fired[k][d][id]

\* D owned at R and below it at A, an observer in A's region linked into A's
\* Record, and the removal at R taking R's Record away while A keeps its own
C20_Witness ==
    /\ fault = "none"
    /\ \E o \in PlainConts, a \in PlainConts, k \in PlainConts, d \in TreeDescs :
          /\ a # o /\ InSubtree(Cur, a, o)
          /\ Owns(Cur, o, d) /\ Owns(Cur, a, d)
          /\ InRegion(Cur, k, a, d)
          /\ m_slots[k][d] # {}
          /\ k \in Range(m_connectedSignals[a][d])
          /\ LET w == removeProperty(Cur, o, d)
             IN /\ ~Owns(w, o, d)
                /\ Owns(w, a, d)
                /\ emit(w, rootOf(Cur, o), TRUE, 0).fired[k][d]
                       = emit(Cur, rootOf(Cur, o), TRUE, 0).fired[k][d]

\* ------------------------------------------------------------------ disconnect

\* the last emit() invoked no slot of the Signal of c for d among ids, and
\* every other slot at least as often as the emit() u did
OnlySilenced(t, u, c, d, ids) ==
    /\ t.fault = "none"
    /\ \A k \in Conts, e \in Descs, i \in SlotIds :
          IF k = c /\ e = d /\ i \in ids THEN t.fired[k][e][i] = 0
          ELSE t.fired[k][e][i] >= u.fired[k][e][i]

\* C21: after C.disconnect(D) no callback registered on C for D, and after
\* C.disconnect(D, h) not the callback under handle h, is invoked by a later
\* emit, also when the value changed before the disconnect: a slot that is
\* not connected is not invoked by the next step and is connected again only
\* by a connect, under a new index or the key of a bound method; the emit
\* after a disconnect invokes none of the disconnected slots and every other
\* slot as it would have without the disconnect.
C21_Disconnected ==
    [][ fault = "none" =>
          /\ \A c \in Conts, d \in Descs, i \in SlotIds :
                i \notin m_slots[c][d] =>
                    /\ fired'[c][d][i] = 0
                    /\ i \in m_slots'[c][d] => i \in {m_index[c][d], hashVal}
          /\ \A c \in ObserverConts, b \in BOOLEAN, garbage \in Values :
                LET d == "StringPD"
                    u == emit(Cur, "R", b, garbage)
                IN /\ OnlySilenced(emit(disconnect(Cur, c, d), "R", b, garbage),
                                   u, c, d, SlotIds)
                   /\ \A h \in m_slots[c][d] :
                         OnlySilenced(emit(disconnectIdx(Cur, c, d, h), "R", b,
                                           garbage),
                                      u, c, d, {h})
      ]_vars

\* a changed value not yet emitted, two callbacks on one Signal: disconnecting
\* one handle silences it and the other is still invoked, disconnecting all
\* silences both
C21_Witness ==
    /\ fault = "none"
    /\ \E c \in ObserverConts, h \in SlotIds, i \in SlotIds :
          LET d == "StringPD"
              u == emit(Cur, "R", TRUE, 0)
              t == emit(disconnectIdx(Cur, c, d, h), "R", TRUE, 0)
              w == emit(disconnect(Cur, c, d), "R", TRUE, 0)
          IN /\ h # i /\ {h, i} \subseteq m_slots[c][d]
             /\ u.fired[c][d][h] = 1 /\ u.fired[c][d][i] = 1
             /\ t.fired[c][d][h] = 0 /\ t.fired[c][d][i] = 1
             /\ w.fired[c][d][h] = 0 /\ w.fired[c][d][i] = 0

\* ------------------------------------------------------------------ copies

\* every container on its own (the tree before any addChildContainer)
DetachedTree == CHOOSE tree \in InitTrees : tree.parent["A"] = NoC

\* R with its child A; B and A1, the objects the copies will be, are not
\* constructed yet
Family ==
    [addChildContainerInternal(Start(DetachedTree), "R", "A")
       EXCEPT !.alive["B"] = FALSE, !.alive["A1"] = FALSE]

\* s after an emit() on R, with the ghosts of that emit forgotten
Settled(s) == forget(emit(s, "R", TRUE, 0))

\* the originals the copy tests start from: a plain property at the root,
\* and the computed property P installed at the root after its input
PlainRoot == Settled(setProperty(Family, "R", "StringPD", 2))
InputThenProxy ==
    Settled(setProxyProperty(setProperty(Family, "R", "StringPD", 2),
                             "R", ProxyKey, "P"))

InitCopy ==
    \/ StartsIn(PlainRoot)
    \/ StartsIn(InputThenProxy)

OrigTree == {"R", "A"}
CopyTree == {twin(c) : c \in OrigTree}
CopyConts == OrigTree \cup CopyTree

\* the object c has not been constructed: it is in the state of Start
Unused(s, c) ==
    /\ ~s.alive[c]
    /\ s.m_parent[c] = NoC /\ s.m_children[c] = <<>> /\ s.hasData[c] = {}
    /\ \A d \in Descs : s.m_toContainer[c][d] = NoC /\ s.m_index[c][d] = 0

\* other can be copied: it exists and the objects of the copy do not yet
CanCopy(s, other) ==
    /\ s.alive[other]
    /\ \A x \in Held(s, other) \cap PlainConts :
          twin(x) # NoC /\ Unused(s, twin(x))

CopyConstruct(other, order) ==
    /\ fault = "none"
    /\ CanCopy(Cur, other)
    /\ Install(copyConstruct(forget(Cur), other, twin(other), order), FALSE)

Destroy(c) ==
    /\ fault = "none"
    /\ alive[c] /\ m_parent[c] = NoC
    /\ Install(destroy(forget(Cur), c), FALSE)

NextCopy ==
    \/ \E other \in OrigTree, order \in Orders : CopyConstruct(other, order)
    \/ \E c \in CopyConts, v \in Values :
          alive[c] /\ SetProperty(c, "StringPD", v)
    \/ \E c \in CopyConts, v \in Values :
          alive[c] /\ ChangeProperty(c, "StringPD", v)
    \/ \E c \in CopyConts, d \in {"StringPD", ProxyKey} :
          alive[c] /\ RemoveProperty(c, d)
    \/ \E c \in CopyConts, d \in {"StringPD", ProxyKey} :
          alive[c] /\ Connect(c, d, F)
    \/ \E c \in CopyConts, b \in BOOLEAN : alive[c] /\ Emit(c, b)
    \/ \E c \in {"R", "B"} : Destroy(c)

SpecCopy == InitCopy /\ [][NextCopy]_vars

\* the getProperty results and observers of the living containers among
\* conts are as in s after the operations that led from s to t: no value
\* visible there changed and the last emit() invoked none of their slots
Untouched(s, t, conts) ==
    \A o \in conts :
        s.alive[o] =>
            \A d \in Descs :
                /\ getProperty(t, o, d) = getProperty(s, o, d)
                /\ hasProperty(t, o, d) = hasProperty(s, o, d)
                /\ \A i \in SlotIds : t.fired[o][d][i] = 0

\* the states one setProperty, changeProperty or removeProperty on k and the
\* emit() on k that follows lead to
Mutations(s, k) ==
    { emit(w, k, TRUE, 0) :
        w \in {setProperty(s, k, "StringPD", v) : v \in Values}
              \cup {changeProperty(s, k, "StringPD", v) : v \in Values}
              \cup {removeProperty(s, k, "StringPD")} }

\* C22: a copy is independent of the original: a setProperty, changeProperty
\* or removeProperty on a container of the copy and the emit after it end
\* without a fault, change no getProperty result and invoke no observer in
\* the original tree; the same calls on the original change no getProperty
\* result in the copy; and every descriptor of a container of the copy
\* resolves to a living container of the copy, also when the copied
\* container was a child or the original has been destroyed.
C22_CopyIndependent ==
    fault = "none" =>
        /\ \A k \in CopyTree :
              alive[k] =>
                  /\ \A d \in Descs : m_toContainer[k][d] \in CopyTree \cup {NoC}
                  /\ \A t \in Mutations(forget(Cur), k) :
                        t.fault = "none" /\ Untouched(Cur, t, OrigTree)
        /\ \A o \in OrigTree :
              alive[o] =>
                  \A t \in Mutations(forget(Cur), o) :
                      \A k \in CopyTree, d \in Descs :
                          alive[k] => getProperty(t, k, d) = getProperty(Cur, k, d)

\* C23: right after copy-constructing B from the root R, getProperty on the
\* copy of each container of R's tree equals getProperty on that container,
\* for every descriptor and every iteration order of the Records; and when R
\* holds the computed property P, setting P's input StringPD on the copy and
\* one emit on the copy leave the copy's computed value equal to P's function
\* of the values visible at the copy.
C23_CopyEqualsOriginal ==
    fault = "none" /\ CanCopy(Cur, "R") =>
        \A order \in Orders :
            LET t == copyConstruct(forget(Cur), "R", "B", order)
            IN /\ t.fault = "none"
               /\ \A c \in OrigTree, d \in Descs :
                     getProperty(t, twin(c), d) = getProperty(Cur, c, d)
               /\ "P" \in Range(m_children["R"]) =>
                     \A v \in Values :
                         LET w == emit(setProperty(t, "B", "StringPD", v),
                                       "B", TRUE, 0)
                         IN /\ w.fault = "none"
                            /\ getProperty(w, "B", ProxyKey)
                                   = m_funcOf("P", [d \in Descs |->
                                                      getProperty(w, "B", d)])

\* ------------------------------------------------------------------ swaps

\* a host R on which one descriptor is held by a plain property and by the
\* computed property P in turn: both are set and removed under
\* StringResultPD, P's input IntPD is set, observers are connected
NextSwap ==
    \/ \E c \in HostConts, v \in Values : SetProperty(c, ProxyKey, v)
    \/ \E c \in HostConts, p \in Formatters : SetProxyProperty(c, ProxyKey, p)
    \/ \E c \in HostConts, v \in Values : SetProperty(c, "IntPD", v)
    \/ \E c \in HostConts : RemoveProperty(c, ProxyKey)
    \/ \E c \in HostConts : Connect(c, ProxyKey, F)
    \/ \E c \in HostConts, b \in BOOLEAN : Emit(c, b)

SpecSwap == InitProxy /\ [][NextSwap]_vars

\* the states after the swap of the property of c for d and the emit that
\* follows it: a computed property is removed and a plain value set, a plain
\* property is replaced by a proxy that is not installed anywhere
Swaps(s, c, d) ==
    { emit(w, c, TRUE, 0) :
        w \in IF proxyOf(s, c, d) # NoC
              THEN { setProperty(removeProperty(s, c, d), c, d, v) :
                       v \in Values }
              ELSE { setProxyProperty(s, c, d, p) :
                       p \in { q \in Formatters :
                                 s.alive[q] /\ s.m_parent[q] = NoC } } }

\* the states after the next change of the value of the property of c for d
\* and the emit that follows: a changeProperty of a plain property, a
\* setProperty of an input of a computed one
Changes(s, c, d) ==
    { emit(w, c, TRUE, 0) :
        w \in IF proxyOf(s, c, d) # NoC
              THEN { setProperty(s, c, "IntPD", v) :
                       v \in Values \ {getProperty(s, c, "IntPD")} }
              ELSE { changeProperty(s, c, d, v) :
                       v \in Values \ {getProperty(s, c, d)} } }

\* C24: replacing the plain property of a container for D by a computed one,
\* or the computed one by a plain one through removeProperty and setProperty,
\* loses no observer: the swap, the next change of the value of the new
\* property and the emits after them end without a fault, and the last emit
\* invokes every callback that was connected for D on the container before
\* the swap.
C24_SwapKeepsObservers ==
    fault = "none" =>
        \A c \in HostConts :
            LET d == ProxyKey
            IN owned[c][d] /\ d \in hasData[c] =>
                  \A s \in Swaps(forget(Cur), c, d) :
                      /\ s.fault = "none"
                      /\ \A t \in Changes(forget(s), c, d) :
                            /\ t.fault = "none"
                            /\ \A i \in m_slots[c][d] : t.fired[c][d][i] >= 1

\* ------------------------------------------------------------------ touchProperty

RECURSIVE touchTimes(_, _, _, _)
\* touchProperty(d) called n times in a row on c
touchTimes(s, c, d, n) ==
    IF n = 0 THEN s ELSE touchTimes(touchProperty(s, c, d), c, d, n - 1)

\* C25: touchProperty(D) on a container whose nearest owner of D is O changes
\* no stored value and marks O's Record dirty: with nothing of D pending
\* before, the next emit invokes every callback of every Signal connected to
\* that Record exactly once, with the unchanged value, and so it does when
\* touchProperty(D) was called several times before the emit.
C25_TouchNotifiesOnce ==
    fault = "none" =>
        \A c \in PlainConts, d \in TreeDescs, n \in 1 .. MaxRepeat :
            LET o == NearestOwner(Cur, c, d)
                r == rootOf(Cur, c)
                w == touchTimes(forget(Cur), c, d, n)
            IN (o # NoC /\ CleanFor(Cur, r, d)) =>
                  /\ w.fault = "none"
                  /\ w.m_value = m_value /\ w.owned = owned
                  /\ w.m_propertyChanged[o][d]
                  /\ \A b \in BOOLEAN :
                        LET t == emit(w, r, b, 0)
                        IN /\ t.fault = "none"
                           /\ \A k \in Range(m_connectedSignals[o][d]) :
                                 \A id \in m_slots[k][d] :
                                     /\ t.fired[k][d][id] = 1
                                     /\ t.received[k][d][id]
                                            = storedValue(Cur, o, d)

\* ------------------------------------------------------------------ addChildContainer

\* C26: P.addChildContainer(K) makes every descriptor visible at P visible
\* with P's value at K and at the descendants of K that have no owner of the
\* descriptor between themselves and K, K included; a container of K's tree
\* with such an owner keeps the value it saw; and no getProperty or
\* hasProperty result changes outside K's tree.
C26_AttachVisibility ==
    fault = "none" =>
        \A pair \in AttachPairs :
            LET c == pair[1]
                k == pair[2]
                t == addChildContainerInternal(forget(Cur), c, k)
            IN (m_parent[k] = NoC /\ rootOf(Cur, c) # k) =>
                  /\ t.fault = "none"
                  /\ \A d \in Descs, x \in Conts :
                        IF ~InSubtree(Cur, x, k)
                        THEN View(t, d)[x] = View(Cur, d)[x]
                        ELSE IF NearestOwner(Cur, x, d) # NoC
                        THEN getProperty(t, x, d) = getProperty(Cur, x, d)
                        ELSE hasProperty(Cur, c, d) =>
                                /\ hasProperty(t, x, d)
                                /\ getProperty(t, x, d) = getProperty(Cur, c, d)

\* R owns a value that is not the default, the detached A owns none and its
\* child A1 owns another value: attached to R, A sees R's value and A1 keeps
\* its own
C26_Witness ==
    /\ fault = "none"
    /\ LET d == "StringPD"
           t == addChildContainerInternal(forget(Cur), "R", "A")
       IN /\ m_parent["A"] = NoC /\ m_parent["A1"] = "A" /\ m_parent["R"] = NoC
          /\ Owns(Cur, "R", d) /\ ~Owns(Cur, "A", d) /\ Owns(Cur, "A1", d)
          /\ getProperty(Cur, "R", d) # getDefaultValue(d)
          /\ getProperty(Cur, "A1", d) # getProperty(Cur, "R", d)
          /\ ~hasProperty(Cur, "A", d)
          /\ hasProperty(t, "A", d)
          /\ getProperty(t, "A", d) = getProperty(Cur, "R", d)
          /\ getProperty(t, "A1", d) = getProperty(Cur, "A1", d)

\* ------------------------------------------------------------------ misuse

\* C27: setProperty(D, computed) on a container that owns a plain value for
\* D is reported as misuse: the call ends in an assertion failure and does
\* not install the computed property.
C27_ProxyOverPlainAsserts ==
    fault = "none" =>
        \A c \in HostConts, p \in Formatters :
            LET d == ProxyKey
                t == setProxyProperty(forget(Cur), c, d, p)
            IN (/\ d \in hasData[c] /\ owned[c][d]
                /\ ~m_isProxyProperty[c][d]
                /\ alive[p] /\ m_parent[p] = NoC) =>
                   /\ t.fault = "assert"
                   /\ proxyOf(t, c, d) = NoC

\* the host c with the detached container A attached as its child
WithChild(s, c) ==
    IF s.m_parent["A"] = NoC /\ rootOf(s, c) # "A"
    THEN addChildContainerInternal(s, c, "A") ELSE s

\* C28: a plain value written onto a computed property is reported as
\* misuse: changeProperty(D, v) on a container that resolves D to a Record
\* holding a computed property, the owner or a child of it, and
\* setProperty(D, v) on the owner end in an assertion failure, whatever v is.
C28_PlainOverProxyAsserts ==
    fault = "none" =>
        \A c \in HostConts, v \in AllValues :
            LET d == ProxyKey
                s == WithChild(forget(Cur), c)
            IN proxyOf(Cur, c, d) # NoC =>
                  /\ \A x \in Conts :
                        s.m_toContainer[x][d] = c =>
                            changeProperty(s, x, d, v).fault = "assert"
                  /\ setProperty(s, c, d, v).fault = "assert"

\* the computed property P is installed on R and the child A resolves its
\* descriptor to R: a changeProperty on either and a setProperty on R assert
C28_Witness ==
    /\ fault = "none"
    /\ LET d == ProxyKey
           s == WithChild(forget(Cur), "R")
       IN /\ proxyOf(Cur, "R", d) = "P"
          /\ s.m_parent["A"] = "R" /\ s.m_toContainer["A"][d] = "R"
          /\ changeProperty(s, "A", d, 1).fault = "assert"
          /\ changeProperty(s, "R", d, proxyValue["P"]).fault = "assert"
          /\ setProperty(s, "R", d, 1).fault = "assert"

\* ------------------------------------------------------------------ calls without an owner

\* the call that led from s to t did nothing that can be observed: no fault,
\* the same getProperty and hasProperty results, dirty Records and pending
\* removals, and the next emit on a root invokes no slot more often than it
\* would have, and none for d when nothing of d was pending
SilentNoOp(s, t, d) ==
    /\ t.fault = "none"
    /\ \A e \in Descs : View(t, e) = View(s, e)
    /\ t.m_changedProperties = s.m_changedProperties
    /\ t.m_propertyChanged = s.m_propertyChanged
    /\ t.m_removedProperties = s.m_removedProperties
    /\ t.m_value = s.m_value /\ t.owned = s.owned
    /\ \A r \in Roots(s), b \in BOOLEAN :
          LET u == emit(s, r, b, 0)
              w == emit(t, r, b, 0)
          IN /\ w.fault = "none"
             /\ \A k \in Conts, e \in Descs, i \in SlotIds :
                   w.fired[k][e][i] <= u.fired[k][e][i]
             /\ CleanFor(s, r, d) =>
                   \A k \in Conts, i \in SlotIds : w.fired[k][d][i] = 0

\* C29: removeProperty(D), touchProperty(D) and disconnect(D) on a container
\* with no owner of D on its path to the root are silent no-ops: no fault,
\* every getProperty and hasProperty result unchanged, no Record dirty and no
\* removal queued that was not before, and no observer invoked by the next
\* emit because of the call.
C29_NoOwnerNoOp ==
    fault = "none" =>
        \A c \in PlainConts, d \in TreeDescs :
            NearestOwner(Cur, c, d) = NoC =>
                /\ SilentNoOp(Cur, removeProperty(forget(Cur), c, d), d)
                /\ SilentNoOp(Cur, touchProperty(forget(Cur), c, d), d)
                /\ SilentNoOp(Cur, disconnect(forget(Cur), c, d), d)

\* ------------------------------------------------------------------ connected Signals

\* the containers that have a Signal for d (an entry in m_propertyData) and
\* resolve d to the owner o: o and its descendants not at or below another
\* owner of d
SignalsInRegion(s, o, d) ==
    { k \in Conts : d \in s.hasData[k] /\ InRegion(s, k, o, d) }

\* C30: in every reachable state the connected-Signal list of the Record of
\* every owner O of every descriptor D holds no Signal twice, only Signals
\* for D of containers that resolve D to O, and the Signal of every such
\* container that has a callback connected.
C30_ConnectedSignals ==
    \A o \in Conts, d \in Descs :
        Owns(Cur, o, d) =>
            LET signals == m_connectedSignals[o][d]
            IN /\ \A i \in DOMAIN signals, j \in DOMAIN signals :
                     signals[i] = signals[j] => i = j
               /\ Range(signals) \subseteq SignalsInRegion(Cur, o, d)
               /\ \A k \in SignalsInRegion(Cur, o, d) :
                     m_slots[k][d] # {} => k \in Range(signals)

\* ------------------------------------------------------------------ deduplicating emit

\* C31: closures registered by separate connect calls are not deduplicated
\* against each other: the deduplicating emit() invokes every closure as
\* often as emit(false) does, once for every dirty Record whose connected
\* list holds its Signal, whichever container and descriptor it was
\* connected on.
C31_ClosuresNotDeduplicated ==
    fault = "none" =>
        \A garbage \in Dangling(Cur, Subtree(Cur, "R")) :
            LET t == emit(Cur, "R", TRUE, garbage)
                u == emit(Cur, "R", FALSE, garbage)
            IN /\ t.fault = "none"
               /\ \A k \in Conts, d \in Descs :
                     \A i \in m_slots[k][d] :
                         slotFunc[k][d][i].kind = "closure" =>
                             t.fired[k][d][i] = u.fired[k][d][i]


\* ------------------------------------------------------------------ one slot identity under several dirty Records

\* the positions in c's dirty list of the Records that have a connected
\* Signal holding a slot with the key id
HoldersOf(s, c, id) ==
    LET list == s.m_changedProperties[c]
    IN { i \in 1 .. Len(list) :
           \E k \in Range(s.m_connectedSignals[c][list[i]]) :
               id \in s.m_slots[k][list[i]] }

\* the slots with the key id of the Signals connected to the Record at
\* position i of c's dirty list
SlotsAt(s, c, id, i) ==
    LET d == s.m_changedProperties[c][i]
    IN { x \in Conts \X {d} \X {id} :
           /\ x[1] \in Range(s.m_connectedSignals[c][d])
           /\ id \in s.m_slots[x[1]][d] }

\* the slots with the key id under all the Records of c's dirty list
SlotsUnder(s, c, id) ==
    UNION { SlotsAt(s, c, id, i) : i \in HoldersOf(s, c, id) }

\* the deduplicating emit() of the root c invokes the slot identity id, held
\* under several dirty Records of c, exactly once, through the Record at
\* position i of the dirty list and with that Record's value
DeliversFrom(s, c, id, i, garbage) ==
    LET t == emit(s, c, TRUE, garbage)
        d == s.m_changedProperties[c][i]
    IN t.fault = "none" =>
         /\ CallsIn(t, SlotsUnder(s, c, id)) = 1
         /\ \E x \in SlotsAt(s, c, id, i) :
               /\ t.fired[x[1]][d][id] = 1
               /\ t.received[x[1]][d][id]
                    = valueAt(s, [c |-> c, garbage |-> garbage], d)

\* the smallest and the largest of a non-empty set of positions
First(positions) == CHOOSE i \in positions : \A j \in positions : i <= j
Last(positions) == CHOOSE i \in positions : \A j \in positions : j <= i

Hosted ==
    forget(emit(setProxyProperty(Start(AttachedTree), "A", ProxyKey, "P"),
                "R", TRUE, 0))

InitHosted == StartsIn(Hosted)

\* the inputs are set and changed at the root R and at the host A, observers
\* connect for the computed descriptor
HostedConts == {"R", "A"}

NextHosted ==
    \/ \E c \in HostedConts, d \in Range(m_pds), v \in Values : SetProperty(c, d, v)
    \/ \E c \in HostedConts, d \in Range(m_pds), v \in Values : ChangeProperty(c, d, v)
    \/ \E c \in HostedConts : Connect(c, ProxyKey, F)
    \/ \E b \in BOOLEAN : Emit("R", b)

SpecHosted == InitHosted /\ [][NextHosted]_vars

\* C33: a Record dirtied by the recomputation of a computed property during
\* an emit() is not processed within that top-level emit(), wherever in the
\* tree its host is: an emit() of the tree never takes the Record of an
\* installed computed property from a dirty list unless the Record was
\* dirty when the emit() started, and when the emit() recomputed the value
\* the next emit() invokes every observer linked to the Record exactly once,
\* with the recomputed value, which getProperty already returns.
C33_RecomputedDeferred ==
    fault = "none" =>
        \A b \in BOOLEAN :
            \A garbage \in Dangling(Cur, Subtree(Cur, "R")) :
                LET t == emit(Cur, "R", b, garbage)
                IN t.fault = "none" =>
                     \A c \in HostedConts, p \in Formatters :
                         (/\ proxyOf(Cur, c, ProxyKey) = p
                          /\ ProxyKey \notin Range(m_changedProperties[c])) =>
                             /\ t.processed[c][ProxyKey] = 0
                             /\ t.proxyValue[p] # proxyValue[p] =>
                                  LET u == emit(t, "R", b, garbage)
                                  IN /\ getProperty(t, c, ProxyKey) = t.proxyValue[p]
                                     /\ u.fault = "none"
                                     /\ \A k \in Range(t.m_connectedSignals[c][ProxyKey]) :
                                          \A id \in t.m_slots[k][ProxyKey] :
                                              /\ u.fired[k][ProxyKey][id] = 1
                                              /\ u.received[k][ProxyKey][id]
                                                   = t.proxyValue[p]


\* ------------------------------------------------------------------ the order of one emit()

\* the test hierarchy with StringPD owned at R, A and B, IntPD owned at R,
\* an observer connected on every container, and everything emitted
Ordered ==
    LET s1 == setProperty(setProperty(Start(AttachedTree), "R", "StringPD", 2),
                          "R", "IntPD", 2)
        s2 == setProperty(setProperty(s1, "A", "StringPD", 2),
                          "B", "StringPD", 2)
        s3 == connect(connect(s2, "R", "StringPD", G), "R", "IntPD", G)
        s4 == connect(connect(connect(s3, "A", "StringPD", G),
                              "A1", "StringPD", G),
                      "B", "StringPD", G)
    IN forget(emit(s4, "R", FALSE, 0))

InitOrder == StartsIn(Ordered)

OrderConts == {"R", "A", "B"}

NextOrder ==
    \/ \E c \in OrderConts, v \in Values : ChangeProperty(c, "StringPD", v)
    \/ \E c \in OrderConts, d \in {"IntPD", "StringPD"} : RemoveProperty(c, d)
    \/ \E b \in BOOLEAN : Emit("R", b)

SpecOrder == InitOrder /\ [][NextOrder]_vars

\* the containers of the tree under c in the order emit() reaches them: c,
\* then the subtree of each child in the order of m_children
RECURSIVE Preorder(_, _)
Preorder(s, c) ==
    LET RECURSIVE below(_)
        below(i) == IF i > Len(s.m_children[c]) THEN <<>>
                    ELSE Preorder(s, s.m_children[c][i]) \o below(i + 1)
    IN <<c>> \o below(1)

\* the position of x in the sequence q (0 if it is not there)
IndexOf(q, x) ==
    IF \E i \in 1 .. Len(q) : q[i] = x
    THEN CHOOSE i \in 1 .. Len(q) : q[i] = x /\ \A j \in 1 .. i - 1 : q[j] # x
    ELSE 0

\* the slot call a may come before the slot call b in an emit() of the root r
MayPrecede(s, r, a, b) ==
    IF a.c = b.c THEN ~(a.phase = "removed" /\ b.phase = "changed")
    ELSE LET order == Preorder(s, r)
         IN /\ IndexOf(order, a.c) > 0
            /\ IndexOf(order, a.c) < IndexOf(order, b.c)

\* C34: within one emit() on a container the slot calls are ordered: those
\* for the Records dirty at the container first, then those of its pending
\* removed properties, then the complete emit of each child in the order the
\* children were added; no call made by a descendant's pass comes before a
\* call made by the pass of an ancestor.
C34_EmitOrder ==
    fault = "none" =>
        \A b \in BOOLEAN :
            \A garbage \in Dangling(Cur, Subtree(Cur, "R")) :
                LET t == emit(Cur, "R", b, garbage)
                    n == Len(t.calls)
                IN /\ t.fault = "none"
                   /\ \A i \in 1 .. n : t.calls[i].phase \in {"changed", "removed"}
                   /\ \A i \in 1 .. n, j \in 1 .. n :
                         i < j => MayPrecede(Cur, "R", t.calls[i], t.calls[j])

\* an emit() that notifies a changed Record of R, then a removed property of
\* R and then a changed Record of the child A
C34_Witness ==
    /\ fault = "none"
    /\ LET t == emit(Cur, "R", FALSE, 0)
           n == Len(t.calls)
       IN \E i \in 1 .. n, j \in 1 .. n, k \in 1 .. n :
             /\ i < j /\ j < k
             /\ t.calls[i].c = "R" /\ t.calls[i].phase = "changed"
             /\ t.calls[j].c = "R" /\ t.calls[j].phase = "removed"
             /\ t.calls[k].c = "A" /\ t.calls[k].phase = "changed"
             /\ Owns(Cur, "R", t.calls[i].d)
             /\ Owns(Cur, "A", t.calls[k].d)


\* ------------------------------------------------------------------ setProperty on a container that does not own the descriptor

\* C35: every setProperty that changes what a container sees is notified:
\* when c does not own d, v differs from what getProperty(c, d) returns and
\* nothing is pending for d in c's tree, then after c.setProperty(d, v) the
\* next emit() of the tree invokes every observer connected for d at c and
\* at c's uncovered descendants exactly once, for every v, the
\* value-initialised one included.
C35_SetPropertyNotified ==
    fault = "none" =>
        \A c \in PlainConts, d \in TreeDescs, v \in Values :
            LET r == rootOf(Cur, c)
            IN (/\ ~Owns(Cur, c, d)
                /\ v # getProperty(Cur, c, d)
                /\ CleanFor(Cur, r, d)) =>
                  LET w == setProperty(noteMutation(Cur), c, d, v)
                  IN \A b \in BOOLEAN :
                        LET t == emit(w, r, b, 0)
                        IN /\ t.fault = "none"
                           /\ \A k \in PlainConts :
                                 InRegion(w, k, c, d) =>
                                     \A id \in w.m_slots[k][d] :
                                         t.fired[k][d][id] = 1


\* ------------------------------------------------------------------ setProperty and removeProperty with no emit() between them

\* C36: the dirty list of a container holds only Records the container
\* currently owns, and when c.setProperty(d, v) is followed by
\* c.removeProperty(d) with no emit() between them (nothing else being
\* pending for d in the tree), the next emit() invokes each observer
\* connected for d in c's region at most once and hands it the value its
\* container sees then, never the removed v.
C36_SetThenRemove ==
    fault = "none" =>
        /\ \A c \in PlainConts :
              \A d \in Range(m_changedProperties[c]) : Owns(Cur, c, d)
        /\ \A c \in PlainConts, d \in TreeDescs, v \in Values :
              LET r == rootOf(Cur, c)
              IN (~Owns(Cur, c, d) /\ CleanFor(Cur, r, d)) =>
                   LET w == removeProperty(
                              setProperty(noteMutation(Cur), c, d, v), c, d)
                   IN \A b \in BOOLEAN, garbage \in Values :
                         LET t == emit(w, r, b, garbage)
                         IN /\ t.fault = "none"
                            /\ \A k \in PlainConts :
                                  InRegion(Cur, k, c, d) =>
                                      \A id \in w.m_slots[k][d] :
                                          /\ t.fired[k][d][id] <= 1
                                          /\ t.received[k][d][id]
                                               \in {-1, getProperty(w, k, d)}


\* ------------------------------------------------------------------ removeProperty below a remaining owner

\* nothing is dirty and no removal is pending in the tree of r
AllClean(s, r) ==
    \A c \in Subtree(s, r) :
        s.m_changedProperties[c] = <<>> /\ s.m_removedProperties[c] = <<>>

\* C37: when a.removeProperty(d) hands a's region over to a remaining
\* ancestor owner o (nothing being pending in the tree), the next emit()
\* invokes exactly the observers whose visible value changed: if o's value
\* differs from the removed one, those connected for d at a and at a's
\* uncovered descendants, each once, and no observer at o or elsewhere in
\* o's region; if the values are equal, nobody.
C37_RemoveNotifiesRegionOnly ==
    fault = "none" =>
        \A a \in PlainConts, d \in {"IntPD", "StringPD"} :
            LET o == IF m_parent[a] # NoC
                     THEN NearestOwner(Cur, m_parent[a], d) ELSE NoC
            IN (Owns(Cur, a, d) /\ o # NoC /\ AllClean(Cur, "R")) =>
                 LET w == removeProperty(noteMutation(Cur), a, d)
                     differs == storedValue(Cur, a, d) # storedValue(Cur, o, d)
                 IN \A b \in BOOLEAN :
                       LET t == emit(w, "R", b, 0)
                       IN /\ t.fault = "none"
                          /\ \A k \in PlainConts :
                                \A id \in m_slots[k][d] :
                                    t.fired[k][d][id] =
                                        IF differs /\ InRegion(Cur, k, a, d)
                                        THEN 1 ELSE 0


\* ------------------------------------------------------------------ removeProperty of a computed property

\* C38: no subscription of a removed computed property survives: once
\* removeProperty has destroyed the proxy p, no Record's m_connectedSignals
\* holds a Signal of p, and a change of one of p's former inputs on the host
\* followed by emit() runs without a fault and does not invoke p's closure.
C38_NoDanglingSubscription ==
    fault = "none" =>
        \A p \in Formatters :
            ~alive[p] =>
                /\ \A c \in Conts, d \in Descs :
                      p \notin Range(m_connectedSignals[c][d])
                /\ \A h \in HostConts, d \in Range(m_pdsOf(p)), v \in Values :
                      \A b \in BOOLEAN :
                          LET w == changeProperty(noteMutation(Cur), h, d, v)
                              t == emit(w, h, b, 0)
                          IN /\ t.fault = "none"
                             /\ \A id \in SlotIds : t.fired[p][d][id] = 0


\* ------------------------------------------------------------------ observers connected before the attachment

\* C39: an observer connected for d on a container k that does not own d and
\* is not yet attached is linked by the attachment: after
\* p.addChildContainer(k), with d owned at p or above and nothing pending for
\* d, a changeProperty(d) that changes the owner's value followed by emit()
\* invokes every observer of k for d exactly once.
C39_LinkedOnAttach ==
    fault = "none" =>
        \A pair \in AttachPairs, d \in TreeDescs :
            LET p == pair[1]
                k == pair[2]
                o == NearestOwner(Cur, p, d)
                r == rootOf(Cur, p)
            IN (/\ m_parent[k] = NoC /\ r # k
                /\ ~Owns(Cur, k, d)
                /\ o # NoC
                /\ CleanFor(Cur, r, d) /\ CleanFor(Cur, k, d)) =>
                  LET w == addChildContainerInternal(forget(Cur), p, k)
                  IN \A v \in Values \ {storedValue(Cur, o, d)}, b \in BOOLEAN :
                        LET x == changeProperty(noteMutation(w), o, d, v)
                            t == emit(x, r, b, 0)
                        IN /\ t.fault = "none"
                           /\ \A id \in m_slots[k][d] : t.fired[k][d][id] = 1


\* ------------------------------------------------------------------ the receiver of a bound method

\* C40: a bound method connected on container k is always invoked with k as
\* its receiver: in every emit() each call of a slot that holds a bound
\* method hands it, as inst, the container whose Signal holds the slot, also
\* when the call is made by the pass of an ancestor that owns the Record.
C40_ReceiverIsObserver ==
    fault = "none" =>
        \A b \in BOOLEAN :
            \A garbage \in Dangling(Cur, Subtree(Cur, "R")) :
                LET t == emit(Cur, "R", b, garbage)
                IN \A i \in 1 .. Len(t.calls) :
                      LET call == t.calls[i]
                      IN slotFunc[call.k][call.d][call.id].kind = "pmf" =>
                             call.c = call.k

=============================================================================
